---- MODULE Spec2Model ----
(***************************************************************************)
(* A model of the zen text editor (src/zen.c): the terminal session        *)
(* lifecycle, the row store with its render/highlight derivation, the      *)
(* cursor and viewport, the key dispatch with its quit counter, the modal  *)
(* prompt, incremental find, open and save.                                *)
(*                                                                         *)
(* Bytes and keys are the integers the C code uses (ASCII codes and the    *)
(* editorKey enum).  A row is a record of chars, render and hl as          *)
(* sequences; the struct editorConfig is the record E.                     *)
(***************************************************************************)
EXTENDS Integers, Sequences, FiniteSets, TLC

VARIABLES
    pc,          \* where the process is: "start", "init", "open", "refresh", "readkey", "exited", "aborted"
    term,        \* attributes installed on the terminal: "orig" or "raw"
    saved,       \* TRUE once tcgetattr has filled E.orig_termios
    handler,     \* TRUE once atexit(disableRawMode) is registered
    status,      \* exit status of the process, NoStatus while it runs
    log,         \* what the exit paths wrote to the terminal, in order
    E,           \* struct editorConfig E
    quit_times,  \* static int quit_times of editorProcessKeypress
    find,        \* the statics of editorFindCallback
    prompt,      \* the frame of a running editorPrompt and of its caller
    disk,        \* bytes of the file named E.filename, NoFile if there is none
    rk           \* the frame of a running editorReadKey: bytes read, key decoded

vars == <<pc, term, saved, handler, status, log, E, quit_times, find, prompt, disk, rk>>

-----------------------------------------------------------------------------
(* Program constants *)

ZEN_TAB_STOP == 4
ZEN_QUIT_TIMES == 3

BACKSPACE == 127
ARROW_LEFT == 1000
ARROW_RIGHT == 1001
ARROW_UP == 1002
ARROW_DOWN == 1003
DEL_KEY == 1004
HOME_KEY == 1005
END_KEY == 1006
PAGE_UP == 1007
PAGE_DOWN == 1008

HL_NORMAL == 0
HL_NUMBER == 1
HL_MATCH == 2

HL_HIGHLIGHT_NUMBERS == 1

\* ASCII codes of the bytes the code names
NUL == 0
TAB == 9
LF == 10
CR == 13
ESC == 27
SPACE == 32
DOT == 46
TILDE == 126

\* CTRL_KEY(k) is k & 0x1f
CTRL_KEY(k) == k % 32

CTRL_F == CTRL_KEY(102)
CTRL_H == CTRL_KEY(104)
CTRL_L == CTRL_KEY(108)
CTRL_Q == CTRL_KEY(113)
CTRL_S == CTRL_KEY(115)

\* E.syntax: NULL, or the index of an HLDB entry
NoSyntax == 0
HLDB == <<[filetype |-> "c",
           filematch |-> << <<DOT, 99>>, <<DOT, 104>>, <<DOT, 99, 112, 112>> >>,
           flags |-> HL_HIGHLIGHT_NUMBERS]>>

\* E.filename == NULL, a prompt that returned NULL, saved_hl == NULL
NoName == <<NUL>>
NoHl == <<255>>
NoFile == <<255>>
NoStatus == 0 - 1

-----------------------------------------------------------------------------
(* Bounds of the model *)

MaxRows == 3
MaxLen == 3
MaxDirty == 2
MaxBuf == 1

\* Bounds of the session specifications (save and quit)
TripLen == 4
SessRows == 2
SessLen == 1
SessDirty == 2
SessBuf == 1

-----------------------------------------------------------------------------
(* ctype.h, for the bytes 0..127 *)

isdigit(c) == c >= 48 /\ c <= 57
isspace(c) == c = SPACE \/ (c >= 9 /\ c <= 13)
iscntrl(c) == (c >= 0 /\ c < 32) \/ c = 127

\* ",.()+-/*=~%<>[];" as codes
SeparatorChars == {44, 46, 40, 41, 43, 45, 47, 42, 61, 126, 37, 60, 62, 91, 93, 59}

\* A separator test that knows whitespace only.
is_separatorSpaceOnly(c) == isspace(c)

is_separator(c) == isspace(c) \/ c = NUL \/ c \in SeparatorChars

Min(a, b) == IF a < b THEN a ELSE b

Fill(n, v) == [i \in 1..n |-> v]

-----------------------------------------------------------------------------
(* Syntax highlighting *)

\* A flag test that finds no flag set.
HasFlagNever(syntax, flag) == FALSE

HasFlag(syntax, flag) == (HLDB[syntax].flags \div flag) % 2 = 1

\* The loop of editorUpdateSyntax from index i (1-based) with hl[1..i-1] decided.
RECURSIVE SyntaxFrom(_, _, _, _, _)
SyntaxFrom(render, syntax, i, prev_sep, hl) ==
    IF i > Len(render) THEN hl
    ELSE LET c == render[i]
             prev_hl == IF i > 1 THEN hl[i - 1] ELSE HL_NORMAL
         IN IF /\ HasFlag(syntax, HL_HIGHLIGHT_NUMBERS)
               /\ \/ isdigit(c) /\ (prev_sep \/ prev_hl = HL_NUMBER)
                  \/ c = DOT /\ prev_hl = HL_NUMBER
            THEN SyntaxFrom(render, syntax, i + 1, FALSE, Append(hl, HL_NUMBER))
            ELSE SyntaxFrom(render, syntax, i + 1, is_separator(c), Append(hl, HL_NORMAL))

\* The early return of editorUpdateSyntax when no rule is selected.
SyntaxIsOff(syntax) == syntax = NoSyntax

\* The hl bytes editorUpdateSyntax leaves for a render under E.syntax.
editorUpdateSyntax(render, syntax) ==
    IF SyntaxIsOff(syntax) THEN Fill(Len(render), HL_NORMAL)
    ELSE SyntaxFrom(render, syntax, 1, TRUE, <<>>)

\* strrchr(E.filename, '.'): the suffix from the last '.', <<>> if there is none
RECURSIVE Ext(_)
Ext(name) ==
    IF name = <<>> THEN <<>>
    ELSE LET rest == Ext(Tail(name))
         IN IF rest # <<>> THEN rest
            ELSE IF Head(name) = DOT THEN name ELSE <<>>

\* strstr(hay, needle) # NULL
Contains(hay, needle) ==
    \E k \in 0..(Len(hay) - Len(needle)) : SubSeq(hay, k + 1, k + Len(needle)) = needle

\* strstr(hay, needle) - hay, for a needle that occurs
IndexOf(hay, needle) ==
    CHOOSE k \in 0..(Len(hay) - Len(needle)) :
        /\ SubSeq(hay, k + 1, k + Len(needle)) = needle
        /\ \A j \in 0..(k - 1) : SubSeq(hay, j + 1, j + Len(needle)) # needle

\* Whether one filematch pattern of an HLDB entry matches the filename.
PatternMatches(name, pat) ==
    LET is_ext == pat[1] = DOT
    IN \/ is_ext /\ Ext(name) # <<>> /\ Ext(name) = pat
       \/ ~is_ext /\ Contains(name, pat)

\* The rule editorSelectSyntaxHighlight stores in E.syntax for a filename.
SelectSyntax(name) ==
    IF name = NoName THEN NoSyntax
    ELSE LET hits == {j \in 1..Len(HLDB) :
                         \E i \in 1..Len(HLDB[j].filematch) :
                             PatternMatches(name, HLDB[j].filematch[i])}
         IN IF hits = {} THEN NoSyntax
            ELSE CHOOSE j \in hits : \A k \in hits : j <= k

-----------------------------------------------------------------------------
(* Row operations *)

numrows(e) == Len(e.row)

\* The render loop of editorUpdateRow: chars from index j on, appended to acc.
RECURSIVE RenderFrom(_, _, _)
RenderFrom(chars, j, acc) ==
    IF j > Len(chars) THEN acc
    ELSE IF chars[j] = TAB
         THEN LET one == Append(acc, SPACE)
                  pad == (ZEN_TAB_STOP - (Len(one) % ZEN_TAB_STOP)) % ZEN_TAB_STOP
              IN RenderFrom(chars, j + 1, one \o Fill(pad, SPACE))
         ELSE RenderFrom(chars, j + 1, Append(acc, chars[j]))

Render(chars) == RenderFrom(chars, 1, <<>>)

\* A row with render and hl derived from chars, its hl buffer valid and its
\* own.  hl holds the row's rsize highlight bytes as read through row->hl,
\* hlok whether that pointer is valid, hlup whether it is the very pointer of
\* the row above.
MkRow(chars, syntax) ==
    [chars |-> chars,
     render |-> Render(chars),
     hl |-> editorUpdateSyntax(Render(chars), syntax),
     hlok |-> TRUE,
     hlup |-> FALSE]

\* What a read through a dangling hl pointer returns: whatever the allocator
\* wrote over the freed bytes, here one byte value that is no highlight tag.
Garbage == 89
GarbageOf(hl) == {Fill(Len(hl), Garbage)}

\* Each function of the row store maps an editor state to the set of states
\* it can leave; the set has several members only where the C code's
\* behaviour is undefined.  e.fault marks a state in which the allocator
\* aborted the process.
Bind(S, Op(_)) == UNION {Op(x) : x \in S}

\* The rows (1-based) whose hl is the pointer of row i.
SharesHl(rows, i) ==
    {j \in 1..Len(rows) :
        \A k \in 1..Len(rows) :
            ((i < k /\ k <= j) \/ (j < k /\ k <= i)) => rows[k].hlup}

\* The bytes w written at the start of a buffer read as `old`.
Overlay(old, w) == [k \in 1..Len(old) |-> IF k <= Len(w) THEN w[k] ELSE old[k]]

\* memset/memcpy of w through the hl pointer of row i: every row that holds
\* the same pointer reads the new bytes.
WriteHl(rows, i, w) ==
    [j \in 1..Len(rows) |->
        IF j = i THEN [rows[j] EXCEPT !.hl = w]
        ELSE IF j \in SharesHl(rows, i) THEN [rows[j] EXCEPT !.hl = Overlay(@, w)]
        ELSE rows[j]]

\* The hl buffer of row i is freed: every other row that holds the pointer
\* is left with a dangling one.
FreeHl(rows, i) ==
    [j \in 1..Len(rows) |->
        IF j = i THEN [rows[j] EXCEPT !.hlup = FALSE]
        ELSE IF j \in SharesHl(rows, i)
             THEN [rows[j] EXCEPT !.hlok = FALSE, !.hlup = FALSE,
                                  !.hl = CHOOSE g \in GarbageOf(@) : TRUE]
             ELSE rows[j]]

\* editorUpdateRow on row at (0-based) whose chars have become `chars`.
\* editorUpdateSyntax reallocs row->hl: a dangling pointer there is either
\* caught by the allocator (abort) or handed back as usable memory; a
\* pointer that other rows hold too is either kept, and the new bytes show
\* in those rows, or moved, and those rows are left with the freed buffer.
editorUpdateRow(e, at, chars) ==
    LET old == e.row[at + 1]
        fresh == MkRow(chars, e.syntax)
        new == [e EXCEPT !.row[at + 1] = fresh]
    IN IF ~old.hlok THEN {new, [e EXCEPT !.fault = TRUE]}
       ELSE IF SharesHl(e.row, at + 1) = {at + 1} THEN {new}
       ELSE {[e EXCEPT !.row = WriteHl([e.row EXCEPT ![at + 1] =
                                           [fresh EXCEPT !.hlup = old.hlup]],
                                       at + 1, fresh.hl)],
             [e EXCEPT !.row = [FreeHl(e.row, at + 1) EXCEPT ![at + 1] = fresh]]}

InsertAt(seq, at, x) == SubSeq(seq, 1, at) \o <<x>> \o SubSeq(seq, at + 1, Len(seq))
RemoveAt(seq, at) == SubSeq(seq, 1, at) \o SubSeq(seq, at + 2, Len(seq))

\* editorInsertRow never sets E.row[at].hl before editorUpdateRow reallocs
\* it.  For at == numrows the slot is uninitialised memory: a null pointer
\* (the row gets a fresh buffer) or an invalid one (abort).  For at < numrows
\* the memmove left the pointer of the row now at at+1 in the slot: realloc
\* either keeps that buffer in place (the new row and the rows that held the
\* pointer share it, and read the new row's bytes) or frees it, leaving
\* those rows with a dangling hl.
editorInsertRow(e, at, s) ==
    IF e.fault \/ at < 0 \/ at > numrows(e) THEN {e}
    ELSE LET new == MkRow(s, e.syntax)
             base == [e EXCEPT !.row = InsertAt(e.row, at, new),
                               !.dirty = @ + 1]
         IN IF at = numrows(e)
            THEN {base, [e EXCEPT !.fault = TRUE]}
            ELSE LET victim == e.row[at + 1]
                     kept == [InsertAt(e.row, at, [new EXCEPT !.hlup = victim.hlup])
                                 EXCEPT ![at + 2].hlup = TRUE]
                 IN IF victim.hlok
                    THEN {[base EXCEPT !.row = WriteHl(kept, at + 1, new.hl)],
                          [base EXCEPT !.row = InsertAt(FreeHl(e.row, at + 1), at, new),
                                       !.row[at + 2].hlok = FALSE,
                                       !.row[at + 2].hl = CHOOSE g \in GarbageOf(victim.hl) : TRUE]}
                    ELSE {base, [e EXCEPT !.fault = TRUE]}

\* editorDelRow frees chars and render (not hl) and shifts the later rows.
editorDelRow(e, at) ==
    IF e.fault \/ at < 0 \/ at >= numrows(e) THEN {e}
    ELSE LET below == [e.row EXCEPT ![at + 2].hlup = @ /\ e.row[at + 1].hlup]
         IN {[e EXCEPT !.row = RemoveAt(IF at + 1 < numrows(e) THEN below ELSE e.row, at),
                       !.dirty = @ + 1]}

BumpDirty(S) == {IF x.fault THEN x ELSE [x EXCEPT !.dirty = @ + 1] : x \in S}

\* An append that puts the string in front of the row.
editorRowAppendStringInFront(e, at, s) ==
    IF e.fault THEN {e}
    ELSE BumpDirty(editorUpdateRow(e, at, s \o e.row[at + 1].chars))

editorRowAppendString(e, at, s) ==
    IF e.fault THEN {e}
    ELSE BumpDirty(editorUpdateRow(e, at, e.row[at + 1].chars \o s))

\* An insert that ignores `at` and always appends.
editorRowInsertCharAtEnd(e, row, at, c) ==
    IF e.fault THEN {e}
    ELSE BumpDirty(editorUpdateRow(e, row, Append(e.row[row + 1].chars, c % 256)))

editorRowInsertChar(e, row, at, c) ==
    IF e.fault THEN {e}
    ELSE LET chars == e.row[row + 1].chars
             pos == IF at < 0 \/ at > Len(chars) THEN Len(chars) ELSE at
         IN BumpDirty(editorUpdateRow(e, row, InsertAt(chars, pos, c % 256)))

editorRowDelChar(e, row, at) ==
    IF e.fault \/ at < 0 \/ at >= Len(e.row[row + 1].chars) THEN {e}
    ELSE BumpDirty(editorUpdateRow(e, row, RemoveAt(e.row[row + 1].chars, at)))

-----------------------------------------------------------------------------
(* Column translation *)

RECURSIVE CxToRxFrom(_, _, _, _)
CxToRxFrom(chars, cx, j, rx) ==
    IF j >= cx THEN rx
    ELSE LET t == IF chars[j + 1] = TAB
                  THEN rx + (ZEN_TAB_STOP - 1) - (rx % ZEN_TAB_STOP)
                  ELSE rx
         IN CxToRxFrom(chars, cx, j + 1, t + 1)

\* A column computation that takes a tab for one column.
editorRowCxToRxPlain(row, cx) == cx

editorRowCxToRx(row, cx) == CxToRxFrom(row.chars, cx, 0, 0)

RECURSIVE RxToCxFrom(_, _, _, _)
RxToCxFrom(chars, rx, cx, cur_rx) ==
    IF cx >= Len(chars) THEN cx
    ELSE LET t == IF chars[cx + 1] = TAB
                  THEN cur_rx + (ZEN_TAB_STOP - 1) - (cur_rx % ZEN_TAB_STOP)
                  ELSE cur_rx
         IN IF t + 1 > rx THEN cx ELSE RxToCxFrom(chars, rx, cx + 1, t + 1)

\* A conversion that takes every byte for one column.
editorRowRxToCxPlain(row, rx) == Min(rx, Len(row.chars))

editorRowRxToCx(row, rx) == RxToCxFrom(row.chars, rx, 0, 0)

-----------------------------------------------------------------------------
(* Editor operations *)

Msg(kind, n, text) == [kind |-> kind, n |-> n, text |-> text]
NoMsg == Msg("", 0, <<>>)

editorSetStatusMessage(e, m) == [e EXCEPT !.statusmsg = m]

\* An insert that leaves the cursor before the new byte.
editorInsertCharBeforeCursor(e, c) ==
    LET S == IF e.cy = numrows(e) THEN editorInsertRow(e, numrows(e), <<>>) ELSE {e}
        Ins(x) == IF x.fault THEN {x} ELSE editorRowInsertChar(x, x.cy, x.cx, c)
    IN Bind(S, Ins)

editorInsertChar(e, c) ==
    LET S == IF e.cy = numrows(e) THEN editorInsertRow(e, numrows(e), <<>>) ELSE {e}
        Ins(x) == IF x.fault THEN {x} ELSE editorRowInsertChar(x, x.cy, x.cx, c)
    IN {IF x.fault THEN x ELSE [x EXCEPT !.cx = @ + 1] : x \in Bind(S, Ins)}

\* A newline at the start of a line that opens the blank row below it.
editorInsertNewlineBelow(e) ==
    LET S == IF e.cx = 0
             THEN editorInsertRow(e, e.cy + 1, <<>>)
             ELSE LET chars == e.row[e.cy + 1].chars
                      Trunc(x) == IF x.fault THEN {x}
                                  ELSE editorUpdateRow(x, x.cy, SubSeq(chars, 1, x.cx))
                  IN Bind(editorInsertRow(e, e.cy + 1, SubSeq(chars, e.cx + 1, Len(chars))),
                          Trunc)
    IN {IF x.fault THEN x ELSE [x EXCEPT !.cy = @ + 1, !.cx = 0] : x \in S}

editorInsertNewline(e) ==
    LET S == IF e.cx = 0
             THEN editorInsertRow(e, e.cy, <<>>)
             ELSE LET chars == e.row[e.cy + 1].chars
                      Trunc(x) == IF x.fault THEN {x}
                                  ELSE editorUpdateRow(x, x.cy, SubSeq(chars, 1, x.cx))
                  IN Bind(editorInsertRow(e, e.cy + 1, SubSeq(chars, e.cx + 1, Len(chars))),
                          Trunc)
    IN {IF x.fault THEN x ELSE [x EXCEPT !.cy = @ + 1, !.cx = 0] : x \in S}

\* A join that leaves the cursor in column 0.
editorDelCharJoinAtStart(e) ==
    IF e.cy = numrows(e) THEN {e}
    ELSE IF e.cx = 0 /\ e.cy = 0 THEN {e}
    ELSE IF e.cx > 0
         THEN {IF x.fault THEN x ELSE [x EXCEPT !.cx = @ - 1] :
                   x \in editorRowDelChar(e, e.cy, e.cx - 1)}
         ELSE LET row == e.row[e.cy + 1]
                  Del(x) == editorDelRow(x, x.cy)
              IN {IF x.fault THEN x ELSE [x EXCEPT !.cy = @ - 1] :
                      x \in Bind(editorRowAppendString(e, e.cy - 1, row.chars), Del)}

editorDelChar(e) ==
    IF e.cy = numrows(e) THEN {e}
    ELSE IF e.cx = 0 /\ e.cy = 0 THEN {e}
    ELSE IF e.cx > 0
         THEN {IF x.fault THEN x ELSE [x EXCEPT !.cx = @ - 1] :
                   x \in editorRowDelChar(e, e.cy, e.cx - 1)}
         ELSE LET row == e.row[e.cy + 1]
                  e1 == [e EXCEPT !.cx = Len(e.row[e.cy].chars)]
                  Del(x) == editorDelRow(x, x.cy)
              IN {IF x.fault THEN x ELSE [x EXCEPT !.cy = @ - 1] :
                      x \in Bind(editorRowAppendString(e1, e1.cy - 1, row.chars), Del)}

\* The size of row cy, 0 on the virtual line past the end.
RowLen(e) == IF e.cy >= numrows(e) THEN 0 ELSE Len(e.row[e.cy + 1].chars)

\* A cursor move without the snap.
SnapCxNone(e) == e

\* The snap at the end of editorMoveCursor.
SnapCx(e) == IF e.cx > RowLen(e) THEN [e EXCEPT !.cx = RowLen(e)] ELSE e

\* Arrow keys that stop at the ends of a line.
editorMoveCursorNoWrap(e, key) ==
    LET size == RowLen(e)
        moved ==
            CASE key = ARROW_LEFT -> IF e.cx # 0 THEN [e EXCEPT !.cx = @ - 1] ELSE e
              [] key = ARROW_RIGHT ->
                    IF e.cy < numrows(e) /\ e.cx < size THEN [e EXCEPT !.cx = @ + 1] ELSE e
              [] key = ARROW_UP -> IF e.cy # 0 THEN [e EXCEPT !.cy = @ - 1] ELSE e
              [] key = ARROW_DOWN -> IF e.cy < numrows(e) THEN [e EXCEPT !.cy = @ + 1] ELSE e
              [] OTHER -> e
    IN SnapCx(moved)

editorMoveCursor(e, key) ==
    LET hasRow == e.cy < numrows(e)
        size == RowLen(e)
        moved ==
            CASE key = ARROW_LEFT ->
                    IF e.cx # 0 THEN [e EXCEPT !.cx = @ - 1]
                    ELSE IF e.cy > 0
                         THEN [e EXCEPT !.cy = @ - 1, !.cx = Len(e.row[e.cy].chars)]
                         ELSE e
              [] key = ARROW_RIGHT ->
                    IF hasRow /\ e.cx < size THEN [e EXCEPT !.cx = @ + 1]
                    ELSE IF hasRow /\ e.cx = size THEN [e EXCEPT !.cy = @ + 1, !.cx = 0]
                         ELSE e
              [] key = ARROW_UP ->
                    IF e.cy # 0 THEN [e EXCEPT !.cy = @ - 1] ELSE e
              [] key = ARROW_DOWN ->
                    IF e.cy < numrows(e) THEN [e EXCEPT !.cy = @ + 1] ELSE e
              [] OTHER -> e
    IN SnapCx(moved)

RECURSIVE MoveTimes(_, _, _)
MoveTimes(e, key, times) ==
    IF times <= 0 THEN e ELSE MoveTimes(editorMoveCursor(e, key), key, times - 1)

\* A page move that places the cursor and does not repeat the arrow.
PageMoveOnce(e, c) ==
    IF c = PAGE_UP THEN [e EXCEPT !.cy = e.rowoff]
    ELSE LET cy == e.rowoff + e.screenrows - 1
         IN [e EXCEPT !.cy = IF cy > numrows(e) THEN numrows(e) ELSE cy]

\* The PAGE_UP / PAGE_DOWN case of editorProcessKeypress.
PageMove(e, c) ==
    LET start == IF c = PAGE_UP THEN [e EXCEPT !.cy = e.rowoff]
                 ELSE LET cy == e.rowoff + e.screenrows - 1
                      IN [e EXCEPT !.cy = IF cy > numrows(e) THEN numrows(e) ELSE cy]
    IN MoveTimes(start, IF c = PAGE_UP THEN ARROW_UP ELSE ARROW_DOWN, e.screenrows)

\* A scroll that follows the cursor down and right and never back.
editorScrollForward(e) ==
    LET rx == IF e.cy < numrows(e) THEN editorRowCxToRx(e.row[e.cy + 1], e.cx) ELSE 0
        ro2 == IF e.cy >= e.rowoff + e.screenrows THEN e.cy - e.screenrows + 1 ELSE e.rowoff
        co2 == IF rx >= e.coloff + e.screencols THEN rx - e.screencols + 1 ELSE e.coloff
    IN [e EXCEPT !.rx = rx, !.rowoff = ro2, !.coloff = co2]

editorScroll(e) ==
    LET rx == IF e.cy < numrows(e) THEN editorRowCxToRx(e.row[e.cy + 1], e.cx) ELSE 0
        ro1 == IF e.cy < e.rowoff THEN e.cy ELSE e.rowoff
        ro2 == IF e.cy >= ro1 + e.screenrows THEN e.cy - e.screenrows + 1 ELSE ro1
        co1 == IF rx < e.coloff THEN rx ELSE e.coloff
        co2 == IF rx >= co1 + e.screencols THEN rx - e.screencols + 1 ELSE co1
    IN [e EXCEPT !.rx = rx, !.rowoff = ro2, !.coloff = co2]

\* editorSelectSyntaxHighlight: on a match every row's hl is re-derived.
RECURSIVE ResyntaxFrom(_, _)
ResyntaxFrom(e, i) ==
    IF e.fault \/ i >= numrows(e) THEN {e}
    ELSE LET Rest(x) == ResyntaxFrom(x, i + 1)
         IN Bind(editorUpdateRow(e, i, e.row[i + 1].chars), Rest)

editorSelectSyntaxHighlight(e) ==
    LET syn == SelectSyntax(e.filename)
    IN IF syn = NoSyntax THEN {[e EXCEPT !.syntax = NoSyntax]}
       ELSE ResyntaxFrom([e EXCEPT !.syntax = syn], 0)

-----------------------------------------------------------------------------
(* File i/o *)

RECURSIVE RowsToStringFrom(_, _)
RowsToStringFrom(rows, j) ==
    IF j > Len(rows) THEN <<>>
    ELSE rows[j].chars \o <<LF>> \o RowsToStringFrom(rows, j + 1)

editorRowsToString(e) == RowsToStringFrom(e.row, 1)

\* A reader that drops a last line without '\n'.
RECURSIVE LinesTerminated(_, _)
LinesTerminated(bytes, cur) ==
    IF bytes = <<>> THEN <<>>
    ELSE IF Head(bytes) = LF
         THEN <<Append(cur, LF)>> \o LinesTerminated(Tail(bytes), <<>>)
         ELSE LinesTerminated(Tail(bytes), Append(cur, Head(bytes)))

\* getline: the lines of a byte string, each with its terminating '\n' if any.
RECURSIVE Lines(_, _)
Lines(bytes, cur) ==
    IF bytes = <<>> THEN (IF cur = <<>> THEN <<>> ELSE <<cur>>)
    ELSE IF Head(bytes) = LF
         THEN <<Append(cur, LF)>> \o Lines(Tail(bytes), <<>>)
         ELSE Lines(Tail(bytes), Append(cur, Head(bytes)))

\* A strip that removes one trailing byte, an `if` where the loop is.
StripEolOnce(line) ==
    IF Len(line) > 0 /\ (line[Len(line)] = LF \/ line[Len(line)] = CR)
    THEN SubSeq(line, 1, Len(line) - 1)
    ELSE line

\* The strip loop of editorOpen: trailing '\n' and '\r' bytes removed.
RECURSIVE StripEol(_)
StripEol(line) ==
    IF Len(line) > 0 /\ (line[Len(line)] = LF \/ line[Len(line)] = CR)
    THEN StripEol(SubSeq(line, 1, Len(line) - 1))
    ELSE line

RECURSIVE LoadLines(_, _, _)
LoadLines(e, lines, j) ==
    IF e.fault \/ j > Len(lines) THEN {e}
    ELSE LET Rest(x) == LoadLines(x, lines, j + 1)
         IN Bind(editorInsertRow(e, numrows(e), StripEol(lines[j])), Rest)

\* An editorOpen that leaves dirty as the row insertions counted it.
editorOpenKeepsDirty(e, name, bytes) ==
    LET Load(x) == LoadLines(x, Lines(bytes, <<>>), 1)
    IN Bind(editorSelectSyntaxHighlight([e EXCEPT !.filename = name]), Load)

\* editorOpen after a successful fopen.
editorOpen(e, name, bytes) ==
    LET Load(x) == LoadLines(x, Lines(bytes, <<>>), 1)
    IN {IF x.fault THEN x ELSE [x EXCEPT !.dirty = 0] :
            x \in Bind(editorSelectSyntaxHighlight([e EXCEPT !.filename = name]), Load)}

\* A save that does not set the file's length.
TruncateNot(old, len) == old

\* ftruncate(fd, len) on a file holding `old`: cut, or padded with NUL bytes.
Truncate(old, len) ==
    [i \in 1..len |-> IF i <= Len(old) THEN old[i] ELSE NUL]

\* write(fd, buf, n) at offset 0 of a file holding `old`.
WriteAt0(old, buf, n) ==
    [i \in 1..(IF n > Len(old) THEN n ELSE Len(old)) |-> IF i <= n THEN buf[i] ELSE old[i]]

-----------------------------------------------------------------------------
(* Find *)

\* memset(&row->hl[idx], HL_MATCH, strlen(query))
PaintMatch(hl, idx, len) ==
    [i \in 1..Len(hl) |-> IF i > idx /\ i <= idx + len THEN HL_MATCH ELSE hl[i]]

\* A scan that stops at the ends of the file.
WrapRowClamped(current, n) ==
    IF current = 0 - 1 THEN 0 ELSE IF current = n THEN n - 1 ELSE current

\* The wrap of `current` around the ends of the file.
WrapRow(current, n) ==
    IF current = 0 - 1 THEN n - 1 ELSE IF current = n THEN 0 ELSE current

\* The search loop of editorFindCallback, i rows already scanned.
RECURSIVE FindLoop(_, _, _, _, _)
FindLoop(e, f, query, current, i) ==
    IF i >= numrows(e) THEN [E |-> e, find |-> f]
    ELSE LET c1 == current + f.direction
             cur == WrapRow(c1, numrows(e))
             row == e.row[cur + 1]
         IN IF Contains(row.render, query)
            THEN LET idx == IndexOf(row.render, query)
                 IN [E |-> [e EXCEPT !.cy = cur,
                                     !.cx = editorRowRxToCx(row, idx),
                                     !.rowoff = numrows(e),
                                     !.row = WriteHl(e.row, cur + 1,
                                                     PaintMatch(row.hl, idx, Len(query)))],
                     find |-> [f EXCEPT !.last_match = cur,
                                        !.saved_hl_line = cur,
                                        !.saved_hl = row.hl]]
            ELSE FindLoop(e, f, query, cur, i + 1)

\* A restore that copies the saved bytes over the row's render.
RestoreHlIntoRender(e, f) ==
    IF f.saved_hl # NoHl
    THEN [e EXCEPT !.row[f.saved_hl_line + 1].render = f.saved_hl]
    ELSE e

\* The restore at the top of editorFindCallback.
RestoreHl(e, f) ==
    IF f.saved_hl # NoHl
    THEN [e EXCEPT !.row = WriteHl(e.row, f.saved_hl_line + 1, f.saved_hl)]
    ELSE e

editorFindCallback(e, f, query, key) ==
    LET e1 == RestoreHl(e, f)
        f1 == [f EXCEPT !.saved_hl = NoHl]
    IN IF key = CR \/ key = ESC
       THEN [E |-> e1, find |-> [f1 EXCEPT !.last_match = 0 - 1, !.direction = 1]]
       ELSE LET f2 == IF key = ARROW_RIGHT \/ key = ARROW_DOWN
                      THEN [f1 EXCEPT !.direction = 1]
                      ELSE IF key = ARROW_LEFT \/ key = ARROW_UP
                           THEN [f1 EXCEPT !.direction = 0 - 1]
                           ELSE [f1 EXCEPT !.last_match = 0 - 1, !.direction = 1]
                f3 == IF f2.last_match = 0 - 1 THEN [f2 EXCEPT !.direction = 1] ELSE f2
            IN FindLoop(e1, f3, query, f3.last_match, 0)

-----------------------------------------------------------------------------
(* Process exit *)

\* The log entry of a call of exit(st).
ExitCall(st) == IF st = 0 THEN "exit 0" ELSE "exit 1"

\* exit() re-entered from the atexit handler is undefined: the process ends
\* with the new status, or is killed by the C library.
ExitAgain(lg, st, tm) ==
    {[pc |-> "exited", term |-> tm, status |-> st, log |-> lg],
     [pc |-> "aborted", term |-> tm, status |-> NoStatus, log |-> lg]}

\* die() called by disableRawMode, itself running inside exit().
dieInHandler(lg, tm) ==
    ExitAgain(lg \o <<"clear", "home", "perror tcsetattr", ExitCall(1)>>, 1, tm)

\* disableRawMode as the atexit handler of an exit with status st.
disableRawMode(lg, st, tm) ==
    {[pc |-> "exited", term |-> "orig", status |-> st, log |-> Append(lg, "restore")]}
    \cup dieInHandler(Append(lg, "restore_failed"), tm)

\* An exit that runs no atexit handler, as _exit(st) would.
exitWithoutHandlers(lg, st, h, tm) ==
    {[pc |-> "exited", term |-> tm, status |-> st, log |-> Append(lg, ExitCall(st))]}

\* exit(st): the registered handler runs, then the process ends.
exit(lg, st, h, tm) ==
    IF h THEN disableRawMode(Append(lg, ExitCall(st)), st, tm)
    ELSE {[pc |-> "exited", term |-> tm, status |-> st, log |-> Append(lg, ExitCall(st))]}

\* A die() that prints its diagnostic without clearing the screen first.
dieWithoutClear(lg, what, h, tm) ==
    exit(Append(lg, what), 1, h, tm)

\* die(s): clear the screen, home the cursor, perror(s), exit(1).
die(lg, what, h, tm) ==
    exit(lg \o <<"clear", "home", what>>, 1, h, tm)

Perrors == {"perror tcgetattr", "perror tcsetattr", "perror read",
            "perror getWindowSize", "perror fopen"}

\* The process ends in one of the outcomes.
Terminate(outs) ==
    \E o \in outs :
        /\ pc' = o.pc
        /\ term' = o.term
        /\ status' = o.status
        /\ log' = o.log

-----------------------------------------------------------------------------
(* Save *)

\* An editorSave that clears dirty before it knows the write succeeded.
editorSaveFileClearsDirty(e, dsk) ==
    LET buf == editorRowsToString(e)
        len == Len(buf)
        opened == IF dsk = NoFile THEN <<>> ELSE dsk
        cut == [i \in 1..len |-> IF i <= Len(opened) THEN opened[i] ELSE NUL]
        failed == editorSetStatusMessage([e EXCEPT !.dirty = 0],
                                         Msg("Can't save! I/O error", 0, <<>>))
        done == editorSetStatusMessage([e EXCEPT !.dirty = 0],
                                       Msg("bytes written to disk", len, <<>>))
    IN {[E |-> failed, disk |-> dsk], [E |-> failed, disk |-> opened],
        [E |-> failed, disk |-> cut], [E |-> done, disk |-> buf]}

\* editorSave from editorRowsToString on: the file is opened (created if
\* absent), cut to len, and written.  Each call can fail.
editorSaveFile(e, dsk) ==
    LET buf == editorRowsToString(e)
        len == Len(buf)
        opened == IF dsk = NoFile THEN <<>> ELSE dsk
        cut == Truncate(opened, len)
        failed == editorSetStatusMessage(e, Msg("Can't save! I/O error", 0, <<>>))
        done == editorSetStatusMessage([e EXCEPT !.dirty = 0],
                                       Msg("bytes written to disk", len, <<>>))
    IN {[E |-> failed, disk |-> dsk]}                                   \* open fails
       \cup {[E |-> failed, disk |-> opened]}                           \* ftruncate fails
       \cup {[E |-> failed, disk |-> cut]}                              \* write returns -1
       \cup {[E |-> failed, disk |-> WriteAt0(cut, buf, n)] : n \in 0..(len - 1)}
       \cup {[E |-> done, disk |-> WriteAt0(cut, buf, len)]}

-----------------------------------------------------------------------------
(* State *)

NoPrompt ==
    [mode |-> "none", buf |-> <<>>,
     saved_cx |-> 0, saved_cy |-> 0, saved_coloff |-> 0, saved_rowoff |-> 0]

\* No key: a value editorReadKey never returns.
NoKey == 2000

\* editorReadKey before its first byte.
NoRead == [seq |-> <<>>, key |-> NoKey]

NoFind == [last_match |-> 0 - 1, direction |-> 1, saved_hl_line |-> 0, saved_hl |-> NoHl]

\* struct editorConfig E before initEditor: a zeroed global.
E0 ==
    [cx |-> 0, cy |-> 0, rx |-> 0, rowoff |-> 0, coloff |-> 0, row |-> <<>>,
     dirty |-> 0, screenrows |-> 0, screencols |-> 0, filename |-> NoName,
     statusmsg |-> NoMsg, syntax |-> NoSyntax, fault |-> FALSE]

HelpMsg == Msg("HELP", 0, <<>>)

InitWith(files) ==
    /\ pc = "start"
    /\ term = "orig"
    /\ saved = FALSE
    /\ handler = FALSE
    /\ status = NoStatus
    /\ log = <<>>
    /\ E = E0
    /\ quit_times = ZEN_QUIT_TIMES
    /\ find = NoFind
    /\ prompt = NoPrompt
    /\ disk \in files
    /\ rk = NoRead

-----------------------------------------------------------------------------
(* Startup *)

\* enableRawMode: tcgetattr, atexit, tcsetattr.
EnableRawMode ==
    /\ pc = "start"
    /\ \E getOk, setOk \in BOOLEAN :
        IF ~getOk
        THEN /\ Terminate(die(log, "perror tcgetattr", handler, term))
             /\ UNCHANGED <<saved, handler>>
        ELSE /\ saved' = TRUE
             /\ handler' = TRUE
             /\ IF ~setOk
                THEN Terminate(die(log, "perror tcsetattr", TRUE, term))
                ELSE /\ pc' = "init"
                     /\ term' = "raw"
                     /\ UNCHANGED <<status, log>>
    /\ UNCHANGED <<E, quit_times, find, prompt, disk, rk>>

\* initEditor with a window of rows x cols, or a failing getWindowSize.
InitEditor(rows, cols) ==
    /\ pc = "init"
    /\ \E ok \in BOOLEAN :
        IF ok
        THEN /\ E' = [E0 EXCEPT !.screenrows = rows - 2, !.screencols = cols]
             /\ pc' = "open"
             /\ UNCHANGED <<term, status, log>>
        ELSE /\ Terminate(die(log, "perror getWindowSize", handler, term))
             /\ UNCHANGED E
    /\ UNCHANGED <<saved, handler, quit_times, find, prompt, disk, rk>>

\* main with argc >= 2: editorOpen(argv[1]), then the help message.
OpenFile(name) ==
    /\ pc = "open"
    /\ \E ok \in BOOLEAN :
        IF ok /\ disk # NoFile
        THEN /\ \E x \in editorOpen(E, name, disk) :
                    IF x.fault THEN pc' = "aborted" /\ UNCHANGED E
                    ELSE pc' = "refresh" /\ E' = editorSetStatusMessage(x, HelpMsg)
             /\ UNCHANGED <<term, status, log>>
        ELSE /\ Terminate(die(log, "perror fopen", handler, term))
             /\ UNCHANGED E
    /\ UNCHANGED <<saved, handler, quit_times, find, prompt, disk, rk>>

\* main with argc < 2.
NoFileArg ==
    /\ pc = "open"
    /\ E' = editorSetStatusMessage(E, HelpMsg)
    /\ pc' = "refresh"
    /\ UNCHANGED <<term, saved, handler, status, log, quit_times, find, prompt, disk, rk>>

-----------------------------------------------------------------------------
(* The loops: refresh, read a key, handle it *)

PromptMsg(p) ==
    IF p.mode = "save" THEN Msg("Save as: %s (ESC to cancel)", 0, p.buf)
    ELSE Msg("Search: %s (Use ESC/Arrows/Enter)", 0, p.buf)

\* editorRefreshScreen, in the main loop or at the top of the prompt loop
\* (there right after editorSetStatusMessage(prompt, buf)).
RefreshScreen ==
    /\ pc = "refresh"
    /\ E' = editorScroll(IF prompt.mode = "none" THEN E
                         ELSE editorSetStatusMessage(E, PromptMsg(prompt)))
    /\ pc' = "readkey"
    /\ UNCHANGED <<term, saved, handler, status, log, quit_times, find, prompt, disk, rk>>

\* editorReadKey: read() fails with an error other than EAGAIN.
ReadError ==
    /\ pc = "readkey"
    /\ Terminate(die(log, "perror read", handler, term))
    /\ UNCHANGED <<saved, handler, E, quit_times, find, prompt, disk, rk>>

(* editorReadKey, one read() at a time *)

\* What one read(STDIN_FILENO, &c, 1) returns: one byte, nothing before the
\* VTIME timeout, or -1 with errno.
ReadOf(b) == [n |-> 1, c |-> b, errno |-> "none"]
ReadTimeout == [n |-> 0, c |-> NUL, errno |-> "none"]
ReadFails(e) == [n |-> 0 - 1, c |-> NUL, errno |-> e]

\* The int a `char c` converts to: char is signed or unsigned, as the
\* implementation defines.
PlainChar(b) == IF b < 128 THEN {b} ELSE {b, b - 256}

\* A decoder with the C and D arrows exchanged.
DecodePairSwapped(s0, s1) ==
    IF s0 = 91
    THEN CASE s1 = 65 -> ARROW_UP
           [] s1 = 66 -> ARROW_DOWN
           [] s1 = 67 -> ARROW_LEFT
           [] s1 = 68 -> ARROW_RIGHT
           [] s1 = 72 -> HOME_KEY
           [] s1 = 70 -> END_KEY
           [] OTHER -> ESC
    ELSE IF s0 = 79
    THEN CASE s1 = 72 -> HOME_KEY
           [] s1 = 70 -> END_KEY
           [] OTHER -> ESC
    ELSE ESC

\* The key for ESC seq[0] seq[1] when seq[1] is no digit after '['.
DecodePair(s0, s1) ==
    IF s0 = 91
    THEN CASE s1 = 65 -> ARROW_UP
           [] s1 = 66 -> ARROW_DOWN
           [] s1 = 67 -> ARROW_RIGHT
           [] s1 = 68 -> ARROW_LEFT
           [] s1 = 72 -> HOME_KEY
           [] s1 = 70 -> END_KEY
           [] OTHER -> ESC
    ELSE IF s0 = 79
    THEN CASE s1 = 72 -> HOME_KEY
           [] s1 = 70 -> END_KEY
           [] OTHER -> ESC
    ELSE ESC

\* The key for ESC [ seq[1] seq[2] with seq[1] a digit.
DecodeTilde(s1, s2) ==
    IF s2 = TILDE
    THEN CASE s1 = 49 -> HOME_KEY
           [] s1 = 51 -> DEL_KEY
           [] s1 = 52 -> END_KEY
           [] s1 = 53 -> PAGE_UP
           [] s1 = 54 -> PAGE_DOWN
           [] s1 = 55 -> HOME_KEY
           [] s1 = 56 -> END_KEY
           [] OTHER -> ESC
    ELSE ESC

\* A failed read inside an escape sequence that starts the key over.
EscReadFailedStartsOver(k) == [k EXCEPT !.seq = <<>>]

\* read() != 1 after the ESC byte: return '\x1b'.
EscReadFailed(k) == [k EXCEPT !.key = ESC]

\* One read() of editorReadKey returning r.  rk.seq holds the bytes read so
\* far, the ESC first; rk.key the key returned once it is decided.
ReadByte(r) ==
    /\ pc = "readkey"
    /\ rk.key = NoKey
    /\ IF rk.seq = <<>>
       THEN IF r.n = 1
            THEN /\ IF r.c = ESC
                    THEN rk' = [seq |-> <<ESC>>, key |-> NoKey]
                    ELSE \E v \in PlainChar(r.c) : rk' = [seq |-> <<r.c>>, key |-> v]
                 /\ UNCHANGED <<pc, term, status, log>>
            ELSE IF r.n = 0 - 1 /\ r.errno # "EAGAIN"
                 THEN Terminate(die(log, "perror read", handler, term)) /\ UNCHANGED rk
                 ELSE UNCHANGED <<pc, term, status, log, rk>>
       ELSE /\ IF r.n # 1
               THEN rk' = EscReadFailed(rk)
               ELSE LET s == Append(rk.seq, r.c)
                    IN IF Len(s) = 2
                       THEN rk' = [seq |-> s, key |-> NoKey]
                       ELSE IF Len(s) = 3
                       THEN IF s[2] = 91 /\ s[3] >= 48 /\ s[3] <= 57
                            THEN rk' = [seq |-> s, key |-> NoKey]
                            ELSE rk' = [seq |-> s, key |-> DecodePair(s[2], s[3])]
                       ELSE rk' = [seq |-> s, key |-> DecodeTilde(s[3], s[4])]
            /\ UNCHANGED <<pc, term, status, log>>
    /\ UNCHANGED <<saved, handler, E, quit_times, find, prompt, disk>>

\* editorReadKey returns rk.key to its caller.
KeyReturned ==
    /\ pc = "readkey"
    /\ rk.key # NoKey
    /\ rk' = NoRead
    /\ UNCHANGED <<pc, term, saved, handler, status, log, E, quit_times, find, prompt, disk>>

\* A dispatch whose DEL_KEY deletes as BACKSPACE does.
DispatchDelBackward(e, c) ==
    IF c = CR THEN editorInsertNewline(e)
    ELSE IF c = HOME_KEY THEN {[e EXCEPT !.cx = 0]}
    ELSE IF c = END_KEY
         THEN {IF e.cy < numrows(e) THEN [e EXCEPT !.cx = Len(e.row[e.cy + 1].chars)] ELSE e}
    ELSE IF c = BACKSPACE \/ c = CTRL_H THEN editorDelChar(e)
    ELSE IF c = DEL_KEY THEN editorDelChar(e)
    ELSE IF c = PAGE_UP \/ c = PAGE_DOWN THEN {PageMove(e, c)}
    ELSE IF c \in {ARROW_UP, ARROW_DOWN, ARROW_LEFT, ARROW_RIGHT} THEN {editorMoveCursor(e, c)}
    ELSE IF c = CTRL_L \/ c = ESC THEN {e}
    ELSE editorInsertChar(e, c)

\* The cases of editorProcessKeypress that act on E alone.
Dispatch(e, c) ==
    IF c = CR THEN editorInsertNewline(e)
    ELSE IF c = HOME_KEY THEN {[e EXCEPT !.cx = 0]}
    ELSE IF c = END_KEY
         THEN {IF e.cy < numrows(e) THEN [e EXCEPT !.cx = Len(e.row[e.cy + 1].chars)] ELSE e}
    ELSE IF c = BACKSPACE \/ c = CTRL_H THEN editorDelChar(e)
    ELSE IF c = DEL_KEY THEN editorDelChar(editorMoveCursor(e, ARROW_RIGHT))
    ELSE IF c = PAGE_UP \/ c = PAGE_DOWN THEN {PageMove(e, c)}
    ELSE IF c \in {ARROW_UP, ARROW_DOWN, ARROW_LEFT, ARROW_RIGHT} THEN {editorMoveCursor(e, c)}
    ELSE IF c = CTRL_L \/ c = ESC THEN {e}
    ELSE editorInsertChar(e, c)

\* A test that forgets the counter: CTRL-Q never exits a modified buffer.
QuitGuardDirtyOnly(e, qt) == e.dirty # 0

\* A test that stops one press early, as `quit_times > 1` would.
QuitGuardOffByOne(e, qt) == e.dirty # 0 /\ qt > 1

\* The test that keeps CTRL-Q from exiting.
QuitGuard(e, qt) == e.dirty # 0 /\ qt > 0

QuitWarning(qt) == Msg("WARNING!!! File has unsaved changes. Press Ctrl-Q %d more times to quit.", qt, <<>>)

\* One saved file and editor state of editorSaveFile becomes the state.
SaveStep(e) ==
    \E o \in editorSaveFile(e, disk) :
        /\ E' = o.E
        /\ disk' = o.disk
        /\ pc' = "refresh"

\* editorProcessKeypress on the logical key c.
ProcessKeypress(c) ==
    /\ pc = "readkey"
    /\ prompt.mode = "none"
    /\ IF c = CTRL_Q
       THEN IF QuitGuard(E, quit_times)
            THEN /\ E' = editorSetStatusMessage(E, QuitWarning(quit_times))
                 /\ quit_times' = quit_times - 1
                 /\ pc' = "refresh"
                 /\ UNCHANGED <<term, status, log, find, prompt, disk>>
            ELSE /\ Terminate(exit(log \o <<"clear", "home">>, 0, handler, term))
                 /\ UNCHANGED <<E, quit_times, find, prompt, disk>>
       ELSE IF c = CTRL_S
       THEN /\ IF E.filename = NoName
               THEN /\ prompt' = [NoPrompt EXCEPT !.mode = "save"]
                    /\ pc' = "refresh"
                    /\ UNCHANGED <<E, disk>>
               ELSE SaveStep(E) /\ UNCHANGED prompt
            /\ UNCHANGED quit_times
            /\ UNCHANGED <<term, status, log, find>>
       ELSE IF c = CTRL_F
       THEN /\ prompt' = [mode |-> "find", buf |-> <<>>,
                          saved_cx |-> E.cx, saved_cy |-> E.cy,
                          saved_coloff |-> E.coloff, saved_rowoff |-> E.rowoff]
            /\ pc' = "refresh"
            /\ UNCHANGED quit_times
            /\ UNCHANGED <<term, status, log, E, find, disk>>
       ELSE /\ \E x \in Dispatch(E, c) :
                    IF x.fault THEN pc' = "aborted" /\ UNCHANGED <<E, quit_times>>
                    ELSE /\ pc' = "refresh"
                         /\ E' = x
                         /\ UNCHANGED quit_times
            /\ UNCHANGED <<term, status, log, find, prompt, disk>>
    /\ rk' = NoRead
    /\ UNCHANGED <<saved, handler>>


\* An aborted save that returns without a message.
SaveAbortedSilently(e) == e

\* editorSave when editorPrompt returned NULL.
SaveAborted(e) == editorSetStatusMessage(e, Msg("Save aborted", 0, <<>>))

\* A cancelled find that puts back the cursor and not the scroll offsets.
FindCancelledKeepsScroll(e, p) == [e EXCEPT !.cx = p.saved_cx, !.cy = p.saved_cy]

\* editorFind when editorPrompt returned NULL: the saved viewport is restored.
FindCancelled(e, p) ==
    [e EXCEPT !.cx = p.saved_cx, !.cy = p.saved_cy,
              !.coloff = p.saved_coloff, !.rowoff = p.saved_rowoff]

\* What follows the return of editorPrompt with `result` (NoName for NULL):
\* the rest of editorSave or of editorFind, then the end of
\* editorProcessKeypress.
PromptReturns(e, f, result) ==
    /\ IF prompt.mode = "save"
       THEN IF result = NoName
            THEN /\ E' = SaveAborted(e)
                 /\ pc' = "refresh"
                 /\ prompt' = NoPrompt
                 /\ find' = f
                 /\ UNCHANGED quit_times
                 /\ UNCHANGED disk
            ELSE \E x \in editorSelectSyntaxHighlight([e EXCEPT !.filename = result]) :
                    IF x.fault
                    THEN pc' = "aborted" /\ UNCHANGED <<E, prompt, find, quit_times, disk>>
                    ELSE /\ SaveStep(x)
                         /\ prompt' = NoPrompt
                         /\ find' = f
                         /\ UNCHANGED quit_times
       ELSE /\ E' = IF result = NoName THEN FindCancelled(e, prompt) ELSE e
            /\ pc' = "refresh"
            /\ prompt' = NoPrompt
            /\ find' = f
            /\ UNCHANGED quit_times
            /\ UNCHANGED disk

\* A prompt that never invokes its callback.
PromptCallbackSkipped(mode, e, f, buf, c) == [E |-> e, find |-> f]

\* `if (callback) callback(buf, c)`: editorFind passes editorFindCallback,
\* editorSave no callback.
PromptCallback(mode, e, f, buf, c) ==
    IF mode = "find" THEN editorFindCallback(e, f, buf, c)
    ELSE [E |-> e, find |-> f]

\* A prompt loop that reads its next key without drawing the screen.
PromptLoopNoRefresh == "readkey"

\* The top of the loop of editorPrompt: the status message is set and
\* editorRefreshScreen called before the next editorReadKey.
PromptLoop == "refresh"

\* One turn of the loop of editorPrompt on the logical key c.
PromptKey(c) ==
    /\ pc = "readkey"
    /\ prompt.mode # "none"
    /\ LET Callback(e, buf) == PromptCallback(prompt.mode, e, find, buf, c)
           Stay(buf) ==
               LET r == Callback(E, buf)
               IN /\ E' = r.E
                  /\ find' = r.find
                  /\ prompt' = [prompt EXCEPT !.buf = buf]
                  /\ pc' = PromptLoop
                  /\ UNCHANGED <<quit_times, disk>>
           Leave(result) ==
               LET r == Callback(editorSetStatusMessage(E, NoMsg), prompt.buf)
               IN PromptReturns(r.E, r.find, result)
       IN IF c = DEL_KEY \/ c = CTRL_H \/ c = BACKSPACE
          THEN Stay(IF Len(prompt.buf) # 0
                    THEN SubSeq(prompt.buf, 1, Len(prompt.buf) - 1)
                    ELSE prompt.buf)
          ELSE IF c = ESC THEN Leave(NoName)
          ELSE IF c = CR
               THEN IF Len(prompt.buf) # 0 THEN Leave(prompt.buf) ELSE Stay(prompt.buf)
          ELSE IF c < 128 /\ ~iscntrl(c) THEN Stay(Append(prompt.buf, c % 256))
          ELSE Stay(prompt.buf)
    /\ rk' = NoRead
    /\ UNCHANGED <<term, saved, handler, status, log>>

-----------------------------------------------------------------------------
(* Specifications *)

\* The model's bounds on the buffer, the dirty counter and the prompt.
Bounded(maxRows, maxLen, maxDirty, maxBuf) ==
    /\ Len(E.row) <= maxRows
    /\ \A i \in 1..Len(E.row) : Len(E.row[i].chars) <= maxLen
    /\ E.dirty <= maxDirty
    /\ Len(prompt.buf) <= maxBuf

\* Inputs of the main specification
Files == {NoFile, <<49, CR, LF, TAB>>}
ArgNames == {<<102, DOT, 99>>}
WinRows == {4}
WinCols == {3}
Keys == {49, CR, BACKSPACE, DEL_KEY, ARROW_LEFT, ARROW_RIGHT, ARROW_UP,
         ARROW_DOWN, HOME_KEY, END_KEY, PAGE_UP, PAGE_DOWN,
         CTRL_F, CTRL_L, ESC}
PromptKeys == {49, CR, ESC, BACKSPACE, ARROW_DOWN, ARROW_UP}

Init == InitWith(Files)

Next ==
    \/ EnableRawMode
    \/ \E r \in WinRows, c \in WinCols : InitEditor(r, c)
    \/ \E n \in ArgNames : OpenFile(n) /\ Bounded(MaxRows, MaxLen, MaxDirty, MaxBuf)'
    \/ NoFileArg /\ disk = NoFile
    \/ RefreshScreen
    \/ ReadError
    \/ \E c \in Keys : ProcessKeypress(c) /\ Bounded(MaxRows, MaxLen, MaxDirty, MaxBuf)'
    \/ \E c \in PromptKeys : PromptKey(c) /\ Bounded(MaxRows, MaxLen, MaxDirty, MaxBuf)'

Spec == Init /\ [][Next]_vars


(* Sessions with save and quit: a one-letter alphabet, small buffers *)

SessFiles == {NoFile, <<97, LF>>, <<97, CR, LF, LF, 97>>}
SessNames == {<<102>>}
SessKeys == {97, CR, BACKSPACE, ARROW_LEFT, ESC, CTRL_Q, CTRL_S, CTRL_F}
SessPromptKeys == {102, CR, ESC, BACKSPACE}

SessBounded == Bounded(SessRows, SessLen, SessDirty, SessBuf)

\* The session specifications keep the pairs of buffer and file few: the
\* text is edited only while the file is as it was found at startup.
EditsBeforeWrite == E'.row # E.row => disk \in SessFiles

InitSession == InitWith(SessFiles)

NextSession ==
    \/ EnableRawMode
    \/ \E r \in WinRows, c \in WinCols : InitEditor(r, c)
    \/ \E n \in SessNames : OpenFile(n) /\ SessBounded'
    \/ NoFileArg
    \/ RefreshScreen
    \/ ReadError
    \/ \E c \in SessKeys : ProcessKeypress(c) /\ SessBounded' /\ EditsBeforeWrite
    \/ \E c \in SessPromptKeys : PromptKey(c) /\ SessBounded'

SpecSession == InitSession /\ [][NextSession]_vars

\* Runs in which, once CTRL-Q has shown its warning, only CTRL-Q is pressed.
NextQuitRun ==
    \/ EnableRawMode
    \/ \E r \in WinRows, c \in WinCols : InitEditor(r, c)
    \/ \E n \in SessNames : OpenFile(n) /\ SessBounded'
    \/ NoFileArg
    \/ RefreshScreen
    \/ /\ quit_times = ZEN_QUIT_TIMES
       /\ \E c \in SessKeys \ {CTRL_Q} :
               ProcessKeypress(c) /\ SessBounded' /\ EditsBeforeWrite
    \/ \E c \in SessPromptKeys : PromptKey(c) /\ SessBounded'
    \/ ProcessKeypress(CTRL_Q)

SpecQuitRun == InitSession /\ [][NextQuitRun]_vars

-----------------------------------------------------------------------------
(* Terminal discipline and quitting *)

LogHas(x) == \E i \in 1..Len(log) : log[i] = x

\* The calls of tcsetattr(saved attributes) in the log.
IsRestore(x) == x = "restore" \/ x = "restore_failed"

\* C1: once enableRawMode has saved the terminal attributes, every exit of
\* the process, exit(0) of the clean quit and exit(1) of every die(), calls
\* tcsetattr with the saved attributes after the call of exit and before the
\* process ends, and the terminal has the saved attributes at the end unless
\* that very call failed.
C1_RestoredOnExit ==
    (pc = "exited" /\ saved) =>
        /\ \E i, j \in 1..Len(log) :
                i < j /\ log[i] \in {"exit 0", "exit 1"} /\ IsRestore(log[j])
        /\ term = "orig" \/ LogHas("restore_failed")
        /\ LogHas("restore") => term = "orig"

\* A clean quit from raw mode that has put the saved attributes back.
C1_Witness ==
    /\ pc = "exited"
    /\ saved
    /\ status = 0
    /\ term = "orig"
    /\ log = <<"clear", "home", "exit 0", "restore">>

\* C2 as stated: a fatal exit has cleared the screen, homed the cursor,
\* restored the saved attributes and then printed its diagnostic, in this
\* order, before it ends with status 1.
C2_RestoreBeforeDiagnostic ==
    (pc = "exited" /\ status = 1) =>
        \E i \in 1..Len(log) :
            /\ i + 3 <= Len(log)
            /\ log[i] = "clear"
            /\ log[i + 1] = "home"
            /\ log[i + 2] = "restore"
            /\ log[i + 3] \in Perrors

\* C2, amended: a fatal exit clears the screen, homes the cursor, prints the
\* diagnostic and calls exit(1), in this order; the saved attributes are put
\* back after that, by the handler exit runs, and only where enableRawMode
\* had registered it (not when tcgetattr failed); status is 1.
C2_DiagnosticBeforeRestore ==
    (pc = "exited" /\ status = 1) =>
        /\ \E i \in 1..Len(log) : log[i] \in Perrors
        /\ \A i \in 1..Len(log) :
                log[i] \in Perrors =>
                    /\ i >= 3
                    /\ log[i - 2] = "clear"
                    /\ log[i - 1] = "home"
                    /\ i < Len(log)
                    /\ log[i + 1] = "exit 1"
        /\ \A i \in 1..Len(log) :
                log[i] = "restore" => i = Len(log) /\ i > 1 /\ log[i - 1] = "exit 1"
        /\ handler <=> \E i \in 1..Len(log) : IsRestore(log[i])

\* A fatal read error in raw mode: diagnostic first, restore last.
C2_Witness ==
    /\ pc = "exited"
    /\ status = 1
    /\ log = <<"clear", "home", "perror read", "exit 1", "restore">>

\* C3: CTRL-Q on a modified buffer with quit_times > 0 does not exit: the
\* status message becomes the warning carrying quit_times, quit_times drops
\* by one, and rows, cursor and dirty stay; CTRL-Q with dirty == 0 or
\* quit_times == 0 clears the screen, homes the cursor and calls exit(0),
\* ending with status 0 unless the restoring handler fails.
C3_CtrlQ ==
    [][ProcessKeypress(CTRL_Q) =>
          IF E.dirty # 0 /\ quit_times > 0
          THEN /\ pc' = "refresh"
               /\ E'.statusmsg.n = quit_times
               /\ E'.statusmsg.kind =
                      "WARNING!!! File has unsaved changes. Press Ctrl-Q %d more times to quit."
               /\ quit_times' = quit_times - 1
               /\ E' = [E EXCEPT !.statusmsg = E'.statusmsg]
               /\ log' = log
               /\ status' = status
          ELSE /\ pc' \in {"exited", "aborted"}
               /\ Len(log') >= 3
               /\ SubSeq(log', 1, 3) = <<"clear", "home", "exit 0">>
               /\ (pc' = "exited" /\ status' = 0) \/ log'[4] = "restore_failed"
               /\ E' = E]_vars

\* The first warning on a modified buffer.
C3_Witness ==
    /\ pc = "refresh"
    /\ E.dirty # 0
    /\ quit_times = ZEN_QUIT_TIMES - 1
    /\ E.statusmsg = QuitWarning(ZEN_QUIT_TIMES)

\* A key other than CTRL-Q has been dispatched: editorProcessKeypress
\* returns to the main loop.
OtherKeyDispatched ==
    /\ \/ \E c \in SessKeys \ {CTRL_Q} : ProcessKeypress(c)
       \/ \E c \in SessPromptKeys : PromptKey(c)
    /\ pc' = "refresh"
    /\ prompt'.mode = "none"

\* C4 as stated: after the dispatch of any key other than CTRL-Q the quit
\* counter is ZEN_QUIT_TIMES (3) again.
C4_CounterReset ==
    [][OtherKeyDispatched => quit_times' = ZEN_QUIT_TIMES]_vars

\* The consecutive CTRL-Q press that a state with this counter would take,
\* in runs where a warning is only ever followed by CTRL-Q.
PressNumber == ZEN_QUIT_TIMES - quit_times + 1

CtrlQWarns ==
    /\ pc' = "refresh"
    /\ E' = [E EXCEPT !.statusmsg = QuitWarning(ZEN_QUIT_TIMES + 1 - PressNumber)]
    /\ quit_times' = quit_times - 1

CtrlQExits ==
    /\ pc' \in {"exited", "aborted"}
    /\ Len(log') >= 3
    /\ SubSeq(log', 1, 3) = <<"clear", "home", "exit 0">>
    /\ (pc' = "exited" /\ status' = 0) \/ log'[4] = "restore_failed"

\* C5 as stated: from a modified buffer and a fresh counter, the first two
\* consecutive CTRL-Q presses warn and decrement, and the third exits with
\* status 0.
C5_ThirdPressExits ==
    [][(ProcessKeypress(CTRL_Q) /\ E.dirty # 0) =>
          IF PressNumber <= 2 THEN CtrlQWarns ELSE CtrlQExits]_vars

\* C5, amended: from a modified buffer and a fresh counter, the first three
\* consecutive CTRL-Q presses warn (with 3, 2 and 1) and decrement, and the
\* fourth exits with status 0.
C5_FourthPressExits ==
    [][(ProcessKeypress(CTRL_Q) /\ E.dirty # 0) =>
          /\ PressNumber \in 1..(ZEN_QUIT_TIMES + 1)
          /\ IF PressNumber <= ZEN_QUIT_TIMES THEN CtrlQWarns ELSE CtrlQExits]_vars

\* The fourth press has ended the editor with the buffer still modified.
C5_Witness ==
    /\ pc = "exited"
    /\ status = 0
    /\ E.dirty # 0
    /\ quit_times = 0
    /\ log = <<"clear", "home", "exit 0", "restore">>

-----------------------------------------------------------------------------
(* Cursor, rows and highlight *)

\* The editor is between two keys: a key or prompt step has been handled.
BetweenKeys == pc \in {"refresh", "readkey"}

\* C6: after every dispatched key and every find or prompt step, with
\* screenrows >= 1, 0 <= cy <= numrows and 0 <= cx <= the size of row cy,
\* the virtual line cy == numrows having size 0.
C6_CursorInBounds ==
    (BetweenKeys /\ E.screenrows >= 1) =>
        /\ 0 <= E.cy
        /\ E.cy <= Len(E.row)
        /\ 0 <= E.cx
        /\ E.cx <= (IF E.cy = Len(E.row) THEN 0 ELSE Len(E.row[E.cy + 1].chars))

\* The cursor sits at the end of a row shorter than the row above it: a
\* vertical move from further right was snapped.
C6_Witness ==
    /\ pc = "refresh"
    /\ E.cy >= 1
    /\ E.cy < Len(E.row)
    /\ E.cx = Len(E.row[E.cy + 1].chars)
    /\ E.cx < Len(E.row[E.cy].chars)

\* The number of spaces a tab at render column col stands for: 1..TAB_STOP,
\* ending on the next multiple of TAB_STOP.
TabWidth(col) == ZEN_TAB_STOP - (col % ZEN_TAB_STOP)

RECURSIVE ExpandTabs(_)
ExpandTabs(chars) ==
    IF chars = <<>> THEN <<>>
    ELSE LET front == ExpandTabs(SubSeq(chars, 1, Len(chars) - 1))
             c == chars[Len(chars)]
         IN IF c = TAB THEN front \o Fill(TabWidth(Len(front)), SPACE)
            ELSE Append(front, c)

\* C7 as stated: at every render, every row's render has no tab and is its
\* chars with every tab expanded to the next multiple of TAB_STOP, and the
\* row's hl is a buffer of exactly rsize == len(render) bytes.
C7_RowsDerived ==
    pc = "refresh" =>
        \A i \in 1..Len(E.row) :
            /\ \A j \in 1..Len(E.row[i].render) : E.row[i].render[j] # TAB
            /\ E.row[i].render = ExpandTabs(E.row[i].chars)
            /\ E.row[i].hlok
            /\ Len(E.row[i].hl) = Len(E.row[i].render)

\* C8 as stated: with no syntax selected every highlight byte of every row
\* is HL_NORMAL.  It is stated here for the states outside a search, where
\* no row carries the HL_MATCH overlay of editorFindCallback, and fails even
\* there.
C8_NormalWithoutSyntax ==
    (E.syntax = NoSyntax /\ prompt.mode # "find") =>
        \A i \in 1..Len(E.row) :
            \A j \in 1..Len(E.row[i].hl) : E.row[i].hl[j] = HL_NORMAL

-----------------------------------------------------------------------------
(* Dirty flag and save *)

RowChars(e) == [i \in 1..Len(e.row) |-> e.row[i].chars]

\* A step in which editorSave wrote the whole buffer.
SaveSucceeds ==
    /\ ProcessKeypress(CTRL_S) \/ \E c \in SessPromptKeys : PromptKey(c)
    /\ pc' = "refresh"
    /\ prompt'.mode = "none"
    /\ E'.statusmsg.kind = "bytes written to disk"

\* C9: a key that changes the rows' contents leaves dirty > 0, dirty stays
\* > 0 until a save succeeds, and dirty == 0 right after open completes and
\* right after a successful save.
C9_Dirty ==
    [][/\ (pc = "readkey" /\ pc' = "refresh" /\ RowChars(E') # RowChars(E)) => E'.dirty > 0
       /\ (E.dirty > 0 /\ E'.dirty = 0) => SaveSucceeds
       /\ (pc = "open" /\ pc' = "refresh") => E'.dirty = 0
       /\ SaveSucceeds => E'.dirty = 0]_vars

\* An edited buffer has been written: dirty is 0 and the file is new.
C9_Witness ==
    /\ pc = "refresh"
    /\ E.dirty = 0
    /\ E.statusmsg.kind = "bytes written to disk"
    /\ disk \notin SessFiles
    /\ disk = editorRowsToString(E)

\* The offset in the saved file of row i (1-based): the rows before it, each
\* with its newline.
RECURSIVE RowOffset(_, _)
RowOffset(rows, i) ==
    IF i <= 1 THEN 0 ELSE RowOffset(rows, i - 1) + Len(rows[i - 1]) + 1

\* C10: a successful save leaves a file of exactly the sum over the rows of
\* (size + 1) bytes, holding each row's chars in row order, each followed by
\* one '\n', the last row's too; the message reports that many bytes
\* written, and dirty is 0.
C10_SaveWritesRows ==
    [][SaveSucceeds =>
          LET rows == RowChars(E')
              total == RowOffset(rows, Len(rows) + 1)
          IN /\ disk' # NoFile
             /\ Len(disk') = total
             /\ \A i \in 1..Len(rows) :
                    /\ \A j \in 1..Len(rows[i]) : disk'[RowOffset(rows, i) + j] = rows[i][j]
                    /\ disk'[RowOffset(rows, i) + Len(rows[i]) + 1] = LF
             /\ E'.statusmsg.n = total
             /\ E'.dirty = 0
             /\ RowChars(E') = RowChars(E)]_vars

\* The text "a" saved under the name f over a longer file: 2 bytes, "a\n".
C10_Witness ==
    /\ pc = "refresh"
    /\ E.filename = <<102>>
    /\ RowChars(E) = <<(<<97>>)>>
    /\ disk = <<97, LF>>
    /\ E.statusmsg = Msg("bytes written to disk", 2, <<>>)
    /\ E.dirty = 0

-----------------------------------------------------------------------------
(* Save failures and the aborted save *)

\* A step in which editorSave, holding a file name, opens and writes the file.
SaveAttempt ==
    \/ ProcessKeypress(CTRL_S) /\ E.filename # NoName
    \/ prompt.mode = "save" /\ prompt.buf # <<>> /\ PromptKey(CR)

\* C11: when a save fails at any step (open, truncate, or a write of fewer
\* than len bytes, so that the file is not the whole buffer), the editor does
\* not exit, the status message becomes "Can't save! I/O error", and dirty,
\* the rows and the cursor are as before the save.
C11_SaveFailureKeepsState ==
    [][SaveAttempt =>
          /\ pc' = "refresh"
          /\ status' = status
          /\ log' = log
          /\ E'.statusmsg.kind \in {"Can't save! I/O error", "bytes written to disk"}
          /\ (disk' = NoFile \/ disk' # editorRowsToString(E)) =>
                 E'.statusmsg.kind = "Can't save! I/O error"
          /\ E'.statusmsg.kind = "Can't save! I/O error" =>
                 /\ E'.dirty = E.dirty
                 /\ E'.row = E.row
                 /\ E'.cx = E.cx
                 /\ E'.cy = E.cy]_vars

\* A short write: the file has the length of the buffer but not its bytes,
\* and the buffer is still modified.
C11_Witness ==
    /\ pc = "refresh"
    /\ E.statusmsg.kind = "Can't save! I/O error"
    /\ E.dirty > 0
    /\ disk # NoFile
    /\ Len(disk) = Len(editorRowsToString(E))
    /\ disk # editorRowsToString(E)

\* The fields of E the 'Save as' prompt must leave alone.
SameBuffer ==
    /\ E'.row = E.row
    /\ E'.cx = E.cx
    /\ E'.cy = E.cy
    /\ E'.dirty = E.dirty
    /\ E'.filename = E.filename

\* C12: a save invoked with no file name whose prompt is left with ESC opens
\* and writes no file, leaves filename unset and rows, cursor and dirty
\* unchanged, from CTRL-S through every prompt step to the ESC, and ends with
\* the status message "Save aborted".
C12_SaveAborted ==
    [][/\ (ProcessKeypress(CTRL_S) /\ E.filename = NoName) =>
              prompt'.mode = "save" /\ disk' = disk /\ SameBuffer
       /\ (prompt.mode = "save" /\ prompt'.mode = "save") =>
              E.filename = NoName /\ disk' = disk /\ SameBuffer
       /\ (prompt.mode = "save" /\ PromptKey(ESC)) =>
              /\ E.filename = NoName
              /\ disk' = disk
              /\ SameBuffer
              /\ E'.statusmsg = Msg("Save aborted", 0, <<>>)
              /\ prompt'.mode = "none"
              /\ pc' = "refresh"]_vars

\* A modified, unnamed buffer right after ESC in the 'Save as' prompt.
C12_Witness ==
    /\ pc = "refresh"
    /\ prompt.mode = "none"
    /\ E.statusmsg = Msg("Save aborted", 0, <<>>)
    /\ E.filename = NoName
    /\ E.dirty > 0
    /\ disk = NoFile

-----------------------------------------------------------------------------
(* Open followed by save *)

RECURSIVE BytesUpTo(_, _)
BytesUpTo(alphabet, n) ==
    IF n = 0 THEN {<<>>}
    ELSE LET shorter == BytesUpTo(alphabet, n - 1)
         IN shorter \cup {Append(f, b) : f \in shorter, b \in alphabet}

\* Every file of at most TripLen bytes over a letter, '\r' and '\n'.
TripFiles == BytesUpTo({97, CR, LF}, TripLen)

InitTrip == InitWith(TripFiles)

\* The editor is started on a file and CTRL-S is the only key pressed.
NextTrip ==
    \/ EnableRawMode
    \/ \E r \in WinRows, c \in WinCols : InitEditor(r, c)
    \/ \E n \in SessNames : OpenFile(n)
    \/ RefreshScreen
    \/ ProcessKeypress(CTRL_S)

SpecTrip == InitTrip /\ [][NextTrip]_vars

\* The position of the first '\n' of F, Len(F) + 1 if it has none.
FirstLF(F) ==
    CHOOSE i \in 1..(Len(F) + 1) :
        /\ i = Len(F) + 1 \/ F[i] = LF
        /\ \A j \in 1..(i - 1) : F[j] # LF

\* A line without the '\r' bytes it ends with.
DropCRs(line) ==
    LET n == CHOOSE k \in 0..Len(line) :
                 /\ k = 0 \/ line[k] # CR
                 /\ \A j \in (k + 1)..Len(line) : line[j] = CR
    IN SubSeq(line, 1, n)

\* F with every line ending (the '\r' bytes at the end of a line and its
\* '\n') replaced by one '\n', the last line ended by '\n' too.
RECURSIVE NormalizedFile(_)
NormalizedFile(F) ==
    IF F = <<>> THEN <<>>
    ELSE LET i == FirstLF(F)
         IN DropCRs(SubSeq(F, 1, i - 1)) \o <<LF>> \o NormalizedFile(SubSeq(F, i + 1, Len(F)))

\* The files open(F); save() can write, the allocator not aborting.
OpenThenSave(F) ==
    {editorRowsToString(x) : x \in {y \in editorOpen(E0, E.filename, F) : ~y.fault}}

\* C13: the file F1 that open(F); save() writes is F with each line ending
\* normalized to '\n' and a '\n' after the last line if F had none there, and
\* open(F1); save() writes F1 again, byte for byte.
C13_OpenSaveIdempotent ==
    /\ (pc \in {"refresh", "readkey"} /\ E.statusmsg = HelpMsg) =>
            editorRowsToString(E) = NormalizedFile(disk)
    /\ (pc = "refresh" /\ E.statusmsg.kind = "bytes written to disk") =>
            /\ disk = editorRowsToString(E)
            /\ OpenThenSave(disk) = {disk}

\* A file with a "\r\n" ending and an unterminated last line has been
\* opened and saved.
C13_Witness ==
    /\ pc = "refresh"
    /\ E.statusmsg = Msg("bytes written to disk", 4, <<>>)
    /\ RowChars(E) = <<(<<97>>), (<<97>>)>>
    /\ disk = <<97, LF, 97, LF>>

-----------------------------------------------------------------------------
(* Insert followed by delete *)

\* Bytes that reach the default case of editorProcessKeypress.
PairBytes == {TAB, LF, 49}

Survivors(S) == {x \in S : ~x.fault}

\* The states after the key c and then BACKSPACE, each followed by its
\* render, from the state e.
PairFrom(e, c) ==
    LET Typed == {editorScroll(x) : x \in Survivors(Dispatch(e, c))}
    IN UNION {{editorScroll(y) : y \in Survivors(Dispatch(x, BACKSPACE))} : x \in Typed}

TwoPairsFrom(e, c, d) == UNION {PairFrom(x, d) : x \in PairFrom(e, c)}

AwaitingKey == pc = "readkey" /\ prompt.mode = "none"

\* C14 as stated: in every reachable state, the empty buffer and the cursor
\* on the virtual line included, insert_char(c) followed by del_char()
\* leaves the number of rows and every row's chars as they were.
C14_PairRestoresAlways ==
    AwaitingKey =>
        \A c \in PairBytes :
            \A x \in PairFrom(E, c) : RowChars(x) = RowChars(E)

\* C14, amended: with the cursor on a row of the buffer (cy < numrows),
\* insert_char(c) followed by del_char() leaves the number of rows and every
\* row's chars as they were, and so does a second pair; with the cursor on
\* the virtual line (the empty buffer included) the first pair leaves one
\* new empty row at the end of the buffer, and a second pair changes nothing
\* more.
C14_PairRestoresOnRows ==
    AwaitingKey =>
        \A c \in PairBytes :
            /\ \A x \in PairFrom(E, c) :
                    /\ x.cy = E.cy /\ x.cx = E.cx
                    /\ RowChars(x) = IF E.cy < Len(E.row) THEN RowChars(E)
                                     ELSE Append(RowChars(E), <<>>)
            /\ \A x \in TwoPairsFrom(E, c, c) :
                    RowChars(x) = IF E.cy < Len(E.row) THEN RowChars(E)
                                  ELSE Append(RowChars(E), <<>>)

\* The opened file's rows after two changes: a byte typed and deleted.
C14_Witness ==
    /\ pc = "readkey"
    /\ E.dirty = 2
    /\ E.filename # NoName
    /\ RowChars(E) = <<(<<49>>), (<<TAB>>)>>
    /\ E.cy = 1
    /\ E.cx = 1

-----------------------------------------------------------------------------
(* The key decoder *)

\* The bytes of the escape sequences, two digits and a letter outside them,
\* and a byte above 127.
KeyBytes == {ESC, 91, 79, 65, 66, 67, 68, 72, 70, 48, 49, 50, 51, 52, 53, 54, 55, 56, 57,
             TILDE, 97, 200}

ReadResults ==
    {ReadOf(b) : b \in KeyBytes} \cup {ReadTimeout, ReadFails("EAGAIN"), ReadFails("EIO")}

\* The editor started on no file, every key read byte by byte.
NextKeys ==
    \/ EnableRawMode
    \/ \E r \in WinRows, c \in WinCols : InitEditor(r, c)
    \/ NoFileArg
    \/ RefreshScreen
    \/ \E r \in ReadResults : ReadByte(r)
    \/ KeyReturned

SpecKeys == InitWith({NoFile}) /\ [][NextKeys]_vars

\* The key a complete byte sequence stands for.
TableKey(s) ==
    CASE s = <<ESC, 91, 65>> -> ARROW_UP
      [] s = <<ESC, 91, 66>> -> ARROW_DOWN
      [] s = <<ESC, 91, 67>> -> ARROW_RIGHT
      [] s = <<ESC, 91, 68>> -> ARROW_LEFT
      [] s \in {<<ESC, 91, 72>>, <<ESC, 79, 72>>} -> HOME_KEY
      [] s \in {<<ESC, 91, 70>>, <<ESC, 79, 70>>} -> END_KEY
      [] s \in {<<ESC, 91, 49, TILDE>>, <<ESC, 91, 55, TILDE>>} -> HOME_KEY
      [] s = <<ESC, 91, 51, TILDE>> -> DEL_KEY
      [] s \in {<<ESC, 91, 52, TILDE>>, <<ESC, 91, 56, TILDE>>} -> END_KEY
      [] s = <<ESC, 91, 53, TILDE>> -> PAGE_UP
      [] s = <<ESC, 91, 54, TILDE>> -> PAGE_DOWN
      [] OTHER -> ESC

\* C15: the key editorReadKey returns for the bytes it read is the one of
\* the table for a sequence that starts with ESC (ESC itself for every
\* sequence outside the table), and the first byte itself, as a char, for
\* any other first byte.
C15_DecoderTable ==
    rk.key # NoKey =>
        /\ rk.seq # <<>>
        /\ IF rk.seq[1] = ESC
           THEN rk.key = TableKey(rk.seq)
           ELSE Len(rk.seq) = 1 /\ rk.key % 256 = rk.seq[1]

\* ESC [ 6 ~ has been decoded as PAGE_DOWN.
C15_Witness ==
    /\ rk.seq = <<ESC, 91, 54, TILDE>>
    /\ rk.key = PAGE_DOWN

\* C16: editorReadKey retries only the read of the first byte (a timeout or
\* EAGAIN there changes nothing, any other error is fatal); after an ESC, a
\* read that brings no byte makes it return ESC at once, every other read
\* adds a byte or decides the key, and the key is decided with the fourth
\* byte at the latest: at most three reads follow the first byte.
C16_BoundedWait ==
    [][\A r \in ReadResults :
          ReadByte(r) =>
              IF rk.seq = <<>>
              THEN /\ r.n = 1 => Len(rk'.seq) = 1 /\ pc' = "readkey"
                   /\ (r.n = 0 \/ r.errno = "EAGAIN") => rk' = rk /\ pc' = "readkey"
                   /\ (r.n = 0 - 1 /\ r.errno # "EAGAIN") =>
                          /\ pc' \in {"exited", "aborted"}
                          /\ SubSeq(log', 1, 4) = <<"clear", "home", "perror read", "exit 1">>
              ELSE /\ r.n # 1 => rk'.key = ESC
                   /\ rk'.key # NoKey \/ Len(rk'.seq) = Len(rk.seq) + 1
                   /\ Len(rk'.seq) <= 4
                   /\ Len(rk'.seq) = 4 => rk'.key # NoKey
                   /\ pc' = "readkey"]_vars

\* A timeout on the fourth read: ESC [ 5 and nothing more returns ESC.
C16_Witness ==
    /\ rk.seq = <<ESC, 91, 53>>
    /\ rk.key = ESC

-----------------------------------------------------------------------------
(* Find sessions *)

\* Longest query typed.
FindBuf == 3

\* The rows foo, bar, foobar; a file with a tab and a digit; no file.
FindFiles == {NoFile,
              <<102, 111, 111, LF, 98, 97, 114, LF, 102, 111, 111, 98, 97, 114, LF>>,
              <<TAB, 102, 111, LF, 49, 111>>}
FindKeys == {ARROW_DOWN, ARROW_RIGHT, END_KEY, CTRL_F}
FindPromptKeys == {102, 111, BACKSPACE, CR, ESC, ARROW_DOWN, ARROW_UP, ARROW_LEFT, ARROW_RIGHT}

InitFind == InitWith(FindFiles)

\* The editor on a file that is searched and never edited.
NextFind ==
    \/ EnableRawMode
    \/ \E r \in WinRows, c \in WinCols : InitEditor(r, c)
    \/ \E n \in ArgNames : OpenFile(n)
    \/ NoFileArg /\ disk = NoFile
    \/ RefreshScreen
    \/ \E c \in FindKeys : ProcessKeypress(c)
    \/ \E c \in FindPromptKeys : PromptKey(c) /\ Len(prompt'.buf) <= FindBuf

SpecFind == InitFind /\ [][NextFind]_vars

Viewport(e) == <<e.cx, e.cy, e.coloff, e.rowoff>>
SavedViewport(p) == <<p.saved_cx, p.saved_cy, p.saved_coloff, p.saved_rowoff>>

\* Some row's render contains the query.
Hit(e, query) == \E i \in 1..numrows(e) : Contains(e.row[i].render, query)

\* The cursor is on the first occurrence of the query in row `at`.
CursorOnHit(e, at, query) ==
    /\ at >= 0 /\ at < numrows(e)
    /\ Contains(e.row[at + 1].render, query)
    /\ e.cy = at
    /\ e.cx = editorRowRxToCx(e.row[at + 1], IndexOf(e.row[at + 1].render, query))

FindStarts == prompt.mode = "none" /\ prompt'.mode = "find"
FindGoesOn == prompt.mode = "find" /\ prompt'.mode = "find"
FindEnds == prompt.mode = "find" /\ prompt'.mode = "none"

\* C17: the viewport saved when CTRL-F is pressed is the editor's cx, cy,
\* coloff and rowoff at that keypress and no key of the session changes the
\* saved values; the ESC that ends the session sets the four fields to them.
\* A key that stays in the session moves the cursor onto a hit or leaves it
\* where it was, and the Enter that ends the session does not move it: the
\* cursor stays where the last hit put it.
C17_FindViewport ==
    [][/\ FindStarts => SavedViewport(prompt') = Viewport(E) /\ E' = E
       /\ FindGoesOn =>
             /\ SavedViewport(prompt') = SavedViewport(prompt)
             /\ \/ CursorOnHit(E', find'.last_match, prompt'.buf)
                \/ E'.cx = E.cx /\ E'.cy = E.cy
       /\ FindEnds =>
             /\ PromptKey(ESC) => Viewport(E') = SavedViewport(prompt)
             /\ PromptKey(CR) => E'.cx = E.cx /\ E'.cy = E.cy]_vars

\* A session that moved the cursor and scrolled has been cancelled.
C17_Witness ==
    /\ prompt.mode = "none"
    /\ pc = "refresh"
    /\ E.statusmsg = NoMsg
    /\ E.cy = 2 /\ E.cx = 6 /\ E.coloff = 4 /\ E.rowoff = 1
    /\ find = NoFind

\* The rows, 0-based, whose render contains the query.
HitRows(e, query) == {i \in 0..(numrows(e) - 1) : Contains(e.row[i + 1].render, query)}

FirstHit(e, query) == CHOOSE i \in HitRows(e, query) : \A j \in HitRows(e, query) : i <= j

\* The first hit row among m + d, m + 2d, ... taken cyclically, m itself last.
CyclicHit(e, query, m, d) ==
    LET n == numrows(e)
        k == CHOOSE k \in 1..n :
                 /\ ((m + d * k) % n) \in HitRows(e, query)
                 /\ \A j \in 1..(k - 1) : ((m + d * j) % n) \notin HitRows(e, query)
    IN (m + d * k) % n

EditKeys == FindPromptKeys \ {CR, ESC, ARROW_DOWN, ARROW_RIGHT, ARROW_UP, ARROW_LEFT}

\* The key c of a find session has put the cursor and last_match on row `at`.
LandsOn(at) == CursorOnHit(E', at, prompt'.buf) /\ find'.last_match = at

CursorStays == E'.cx = E.cx /\ E'.cy = E.cy

\* C18 as stated: an edit of the query lands on the lowest hit row,
\* ARROW_DOWN/RIGHT on the next hit row after last_match and ARROW_UP/LEFT
\* on the previous one, cyclically; without a hit row the key changes
\* neither the cursor nor last_match.
C18_FindNavigationAsStated ==
    [][\A c \in FindPromptKeys \ {CR, ESC} :
          (PromptKey(c) /\ FindGoesOn) =>
              LET q == prompt'.buf
              IN IF HitRows(E, q) = {}
                 THEN CursorStays /\ find'.last_match = find.last_match
                 ELSE IF c \in EditKeys THEN LandsOn(FirstHit(E, q))
                 ELSE IF c \in {ARROW_DOWN, ARROW_RIGHT}
                      THEN LandsOn(CyclicHit(E, q, find.last_match, 1))
                      ELSE LandsOn(CyclicHit(E, q, find.last_match, 0 - 1))]_vars

\* C18: an edit of the query lands on the lowest hit row and so does any
\* arrow while there is no last match; with a last match ARROW_DOWN/RIGHT
\* lands on the next hit row after it and ARROW_UP/LEFT on the previous one,
\* cyclically.  Without a hit row the cursor stays, an arrow leaves
\* last_match as it was and an edit of the query resets it to -1.
C18_FindNavigation ==
    [][\A c \in FindPromptKeys \ {CR, ESC} :
          (PromptKey(c) /\ FindGoesOn) =>
              LET q == prompt'.buf
                  m == find.last_match
              IN IF HitRows(E, q) = {}
                 THEN /\ CursorStays
                      /\ find'.last_match = IF c \in EditKeys THEN 0 - 1 ELSE m
                 ELSE IF c \in EditKeys \/ m = 0 - 1 THEN LandsOn(FirstHit(E, q))
                 ELSE IF c \in {ARROW_DOWN, ARROW_RIGHT}
                      THEN LandsOn(CyclicHit(E, q, m, 1))
                      ELSE LandsOn(CyclicHit(E, q, m, 0 - 1))]_vars

\* Rows foo, bar, foobar and the query foo: ARROW_DOWN from the hit on row 0
\* has put the cursor on row 2.
C18_Witness ==
    /\ numrows(E) = 3
    /\ prompt.mode = "find"
    /\ prompt.buf = <<102, 111, 111>>
    /\ find.direction = 1
    /\ find.last_match = 2
    /\ E.cy = 2 /\ E.cx = 0

\* The hl of every row with the painted row's bytes taken from the snapshot.
Unpainted(e, f) ==
    [i \in 1..numrows(e) |->
        IF f.saved_hl # NoHl /\ i = f.saved_hl_line + 1 THEN f.saved_hl ELSE e.row[i].hl]

HasMatch(hl) == \E k \in 1..Len(hl) : hl[k] = HL_MATCH

\* Only the row of the snapshot carries MATCH bytes, the snapshot none.
OnePainted(e, f) ==
    /\ \A i \in 1..numrows(e) :
          HasMatch(e.row[i].hl) => f.saved_hl # NoHl /\ i = f.saved_hl_line + 1
    /\ f.saved_hl # NoHl => ~HasMatch(f.saved_hl)

\* C19 as stated: at any time at most one row carries MATCH bytes, the one
\* whose snapshot is held; no key from the CTRL-F that opens a find session
\* to the Enter or ESC that ends it changes what the rows' hl are once the
\* painted row is read from its snapshot, so each callback has restored the
\* row painted before it and the end of the session leaves every hl as it
\* was before the session; outside a session no snapshot is held and
\* last_match = -1, direction = +1.
C19_PaintUndone ==
    [][/\ OnePainted(E', find')
       /\ (prompt.mode = "find" \/ prompt'.mode = "find") =>
              Unpainted(E', find') = Unpainted(E, find)
       /\ prompt'.mode # "find" => find' = [find EXCEPT !.last_match = 0 - 1,
                                                        !.direction = 1,
                                                        !.saved_hl = NoHl]]_vars

-----------------------------------------------------------------------------
(* Paging through a file of ten lines *)

\* Ten lines of one letter each.
TenLines == <<97, LF, 97, LF, 97, LF, 97, LF, 97, LF, 97, LF, 97, LF, 97, LF, 97, LF, 97, LF>>

\* A window of six lines: four text rows above the two bars.
PageWinRows == {6}
PageKeys == {PAGE_DOWN, PAGE_UP, ARROW_DOWN, ARROW_UP, ARROW_RIGHT}

InitPage == InitWith({TenLines})

NextPage ==
    \/ EnableRawMode
    \/ \E r \in PageWinRows, c \in WinCols : InitEditor(r, c)
    \/ \E n \in ArgNames : OpenFile(n)
    \/ RefreshScreen
    \/ \E c \in PageKeys : ProcessKeypress(c)

SpecPage == InitPage /\ [][NextPage]_vars

\* PAGE_DOWN is pressed on ten rows with the cursor at (0,0), rowoff 0 and
\* four text rows.
PageDownAtTop ==
    /\ ProcessKeypress(PAGE_DOWN)
    /\ numrows(E) = 10
    /\ E.cx = 0 /\ E.cy = 0 /\ E.rowoff = 0
    /\ E.screenrows = 4

\* Row `line` is one of the rows editorScroll lets the next render draw.
VisibleAfterRender(e, line) ==
    /\ editorScroll(e).rowoff <= line
    /\ line < editorScroll(e).rowoff + e.screenrows

\* C20 as stated: the keypress makes cy equal 3, and after the following
\* render line 3 lies inside the viewport.
C20_PageDownToThree ==
    [][PageDownAtTop => E'.cy = 3 /\ VisibleAfterRender(E', 3)]_vars

\* C20: the keypress puts the cursor on the last row of the window, row 3,
\* and then moves it down screenrows = 4 more rows: cy equals 7, and the
\* following render scrolls to rowoff 4, so that line 7 is the last row of
\* the viewport and line 3 is above it.
C20_PageDownToSeven ==
    [][PageDownAtTop =>
          /\ E'.cy = 7
          /\ editorScroll(E').rowoff = 4
          /\ VisibleAfterRender(E', 7)
          /\ ~VisibleAfterRender(E', 3)]_vars

\* PAGE_DOWN has acted on the top of the ten rows and the render has not
\* yet scrolled: a cursor four rows below the window is left by no other key.
C20_Witness ==
    /\ pc = "refresh"
    /\ numrows(E) = 10
    /\ E.screenrows = 4
    /\ E.cx = 0 /\ E.cy = 7 /\ E.rowoff = 0

-----------------------------------------------------------------------------
(* Highlighting of opened lines *)

\* Longest line opened.
SynLen == 4

\* "x 12 3.5 a4"
SampleLine == <<120, SPACE, 49, 50, SPACE, 51, DOT, 53, SPACE, 97, 52>>

\* Every line of a digit, a dot, a comma, a space, a tab and a letter up to
\* SynLen bytes, and the sample line.
SyntaxFiles == (BytesUpTo({49, DOT, 44, SPACE, TAB, 97}, SynLen) \ {<<>>}) \cup {SampleLine}

InitSyntax == InitWith(SyntaxFiles)

\* The editor opens a one-line file f.c and draws it.
NextSyntax ==
    \/ EnableRawMode
    \/ \E r \in WinRows, c \in WinCols : InitEditor(r, c)
    \/ \E n \in ArgNames : OpenFile(n)
    \/ RefreshScreen

SpecSyntax == InitSyntax /\ [][NextSyntax]_vars

\* Whitespace, null, or one of ,.()+-/*=~%<>[];
SeparatorByte(b) ==
    \/ b \in {SPACE, 9, 10, 11, 12, 13}
    \/ b = NUL
    \/ b \in {44, 46, 40, 41, 43, 45, 47, 42, 61, 126, 37, 60, 62, 91, 93, 59}

\* Byte i (1-based) of render is to be tagged NUMBER, given the tags hl.
NumberAt(render, hl, i) ==
    \/ /\ render[i] \in 48..57
       /\ \/ i = 1
          \/ hl[i - 1] = HL_NORMAL /\ SeparatorByte(render[i - 1])
          \/ hl[i - 1] = HL_NUMBER
    \/ /\ render[i] = DOT
       /\ i > 1
       /\ hl[i - 1] = HL_NUMBER

\* C21: with HIGHLIGHT_NUMBERS selected, every row's hl has one tag per
\* rendered byte; byte i is tagged NUMBER if and only if it is a digit that
\* is first, or follows an untagged separator, or follows a NUMBER byte, or
\* it is a '.' that follows a NUMBER byte; every other byte is NORMAL, and
\* no byte is MATCH.
C21_NumberTags ==
    (E.syntax # NoSyntax /\ HLDB[E.syntax].flags = HL_HIGHLIGHT_NUMBERS) =>
        \A r \in 1..numrows(E) :
            LET render == E.row[r].render
                hl == E.row[r].hl
            IN /\ Len(hl) = Len(render)
               /\ \A i \in 1..Len(render) :
                     /\ hl[i] = (IF NumberAt(render, hl, i) THEN HL_NUMBER ELSE HL_NORMAL)
                     /\ hl[i] # HL_MATCH

\* The line ".1," is open: a digit after an untagged separator.
C21_Witness ==
    /\ numrows(E) = 1
    /\ E.row[1].render = <<DOT, 49, 44>>
    /\ E.row[1].hl = <<HL_NORMAL, HL_NUMBER, HL_NORMAL>>

\* The rows whose render is the sample line, highlighted under a syntax.
SampleRows == {r \in 1..numrows(E) : E.syntax # NoSyntax /\ E.row[r].render = SampleLine}

\* C22 as stated: the render "x 12 3.5 a4" is tagged N,N,N,D,D,N,N,N,N,N,N.
C22_SampleTagsAsListed ==
    \A r \in SampleRows :
        E.row[r].hl = <<HL_NORMAL, HL_NORMAL, HL_NORMAL, HL_NUMBER, HL_NUMBER,
                        HL_NORMAL, HL_NORMAL, HL_NORMAL, HL_NORMAL, HL_NORMAL,
                        HL_NORMAL>>

\* C22: with HIGHLIGHT_NUMBERS selected the render "x 12 3.5 a4" is tagged
\* N,N,D,D,N,D,D,D,N,N,N: NUMBER on the digits of 12 and on 3.5 with its
\* '.', NORMAL on everything else, the 4 of a4 included.
C22_SampleTags ==
    \A r \in SampleRows :
        E.row[r].hl = <<HL_NORMAL, HL_NORMAL, HL_NUMBER, HL_NUMBER, HL_NORMAL,
                        HL_NUMBER, HL_NUMBER, HL_NUMBER, HL_NORMAL, HL_NORMAL,
                        HL_NORMAL>>

\* The sample line is open in f.c.
C22_Witness ==
    /\ SampleRows = {1}
    /\ Len(E.row[1].hl) = 11
    /\ pc = "readkey"

-----------------------------------------------------------------------------
(* Columns of lines with tabs *)

\* Longest line opened.
ColLen == 3

\* Every line of two letters and a tab up to ColLen bytes; "a\tb" is one.
ColFiles == BytesUpTo({97, 98, TAB}, ColLen) \ {<<>>}
ColKeys == {ARROW_RIGHT, ARROW_LEFT, CTRL_F}
ColPromptKeys == {97, 98, ESC, CR}

InitCols == InitWith(ColFiles)

\* The editor on a one-line file: the cursor walks the line and a search
\* puts it on a match.
NextCols ==
    \/ EnableRawMode
    \/ \E r \in WinRows, c \in WinCols : InitEditor(r, c)
    \/ \E n \in ArgNames : OpenFile(n)
    \/ RefreshScreen
    \/ \E c \in ColKeys : ProcessKeypress(c)
    \/ \E c \in ColPromptKeys : PromptKey(c) /\ Len(prompt'.buf) <= ColLen

SpecCols == InitCols /\ [][NextCols]_vars

\* Render column rx of the row is where one of its bytes starts, or its end.
StartsByte(row, rx) == \E cx \in 0..Len(row.chars) : editorRowCxToRx(row, cx) = rx

\* C23: for every row and every cx in [0, size], rx_to_cx(cx_to_rx(cx)) is
\* cx; and for every render column rx in [0, rsize] that does not fall
\* inside a tab expansion, cx_to_rx(cx) = rx exactly when rx_to_cx(rx) = cx.
\* For chars "a\tb", rx_to_cx(4) = 2.
C23_ColumnsInverse ==
    \A r \in 1..numrows(E) :
        LET row == E.row[r]
        IN /\ \A cx \in 0..Len(row.chars) :
                 editorRowRxToCx(row, editorRowCxToRx(row, cx)) = cx
           /\ \A rx \in 0..Len(row.render) :
                 StartsByte(row, rx) =>
                     \A cx \in 0..Len(row.chars) :
                         (editorRowCxToRx(row, cx) = rx) <=> (editorRowRxToCx(row, rx) = cx)
           /\ row.chars = <<97, TAB, 98>> => editorRowRxToCx(row, 4) = 2
           /\ (pc = "readkey" /\ r = E.cy + 1) => editorRowRxToCx(row, E.rx) = E.cx

\* A search for b in "a\tb" has put the cursor on the match at render
\* column 4, and the render has computed rx from cx = 2.
C23_Witness ==
    /\ numrows(E) = 1
    /\ E.row[1].chars = <<97, TAB, 98>>
    /\ prompt.mode = "find"
    /\ prompt.buf = <<98>>
    /\ pc = "readkey"
    /\ E.cx = 2 /\ E.rx = 4

-----------------------------------------------------------------------------
(* The loop of render and key read *)

\* A logical key is read and handled, in the main loop or in a prompt.
KeyStep == \E c \in SessKeys \cup SessPromptKeys : ProcessKeypress(c) \/ PromptKey(c)

\* C24: every key is read where the process waits for terminal input and
\* nowhere else, and handling it ends in the next screen refresh or in the
\* end of the process; the state in which a key is read is entered only by a
\* screen refresh, and a refresh is followed only by a key read, so exactly
\* one refresh lies between two consecutive key reads, in the main loop, in
\* a prompt, and on entering or leaving one.  The refresh applies
\* editorScroll to the editor state before it draws.
C24_OneRefreshPerKey ==
    [][/\ KeyStep => pc = "readkey" /\ pc' \in {"refresh", "exited", "aborted"}
       /\ pc' = "readkey" => pc = "refresh"
       /\ pc = "refresh" =>
              /\ pc' = "readkey"
              /\ E' = editorScroll(IF prompt.mode = "none" THEN E
                                   ELSE editorSetStatusMessage(E, PromptMsg(prompt)))
              /\ prompt' = prompt]_vars

\* The 'Save as' prompt has taken a letter and the screen was drawn again:
\* the next key is awaited inside the prompt.
C24_Witness ==
    /\ pc = "readkey"
    /\ prompt.mode = "save"
    /\ prompt.buf = <<102>>
    /\ E.statusmsg = PromptMsg(prompt)

-----------------------------------------------------------------------------
(* The viewport *)

\* C25: when a key is awaited, that is after the editorScroll of the render
\* before it, with screenrows >= 1 and screencols >= 1,
\* 0 <= rowoff <= cy < rowoff + screenrows and
\* 0 <= coloff <= rx < coloff + screencols; so rowoff is in [0, numrows] and
\* the cursor position the render emits, (cy - rowoff + 1, rx - coloff + 1),
\* is within rows 1..screenrows and columns 1..screencols.
C25_CursorInViewport ==
    (pc = "readkey" /\ E.screenrows >= 1 /\ E.screencols >= 1) =>
        /\ 0 <= E.rowoff /\ E.rowoff <= E.cy /\ E.cy < E.rowoff + E.screenrows
        /\ 0 <= E.coloff /\ E.coloff <= E.rx /\ E.rx < E.coloff + E.screencols
        /\ E.rowoff <= numrows(E)
        /\ (E.cy - E.rowoff) + 1 \in 1..E.screenrows
        /\ (E.rx - E.coloff) + 1 \in 1..E.screencols

\* The viewport has followed the cursor down and to the right: the cursor
\* is drawn in the last row and the last column of the window.
C25_Witness ==
    /\ pc = "readkey"
    /\ E.rowoff > 0 /\ E.coloff > 0
    /\ E.cy = E.rowoff + E.screenrows - 1
    /\ E.rx = E.coloff + E.screencols - 1

-----------------------------------------------------------------------------
(* Prompts *)

\* Longest prompt buffer.
PromptBuf == 2

\* Keys of a prompt: two letters, the three deleting keys, Enter, ESC, a
\* control byte, an arrow, and the byte 200 as a signed or an unsigned char.
PromptInputs == {97, 98, BACKSPACE, CTRL_H, DEL_KEY, CR, ESC, CTRL_L, ARROW_LEFT} \cup PlainChar(200)

InitPrompt == InitWith({NoFile, <<97, 98, LF>>})

\* The editor with its two prompts, 'Save as' on an unnamed buffer and
\* 'Search' on an opened one.
NextPrompt ==
    \/ EnableRawMode
    \/ \E r \in WinRows, c \in WinCols : InitEditor(r, c)
    \/ \E n \in SessNames : OpenFile(n)
    \/ NoFileArg /\ disk = NoFile
    \/ RefreshScreen
    \/ \E c \in {CTRL_S, CTRL_F} : ProcessKeypress(c)
    \/ \E c \in PromptInputs : PromptKey(c) /\ Len(prompt'.buf) <= PromptBuf

SpecPrompt == InitPrompt /\ [][NextPrompt]_vars

\* A printable byte: below 128 and no control byte.
Printable(c) == c >= 32 /\ c <= 126

\* The prompt stays open with buffer b.
PromptOpenWith(b) == prompt' = [prompt EXCEPT !.buf = b]

\* editorPrompt has returned no value to its caller.
ReturnsNoValue ==
    /\ prompt'.mode = "none"
    /\ E'.filename = E.filename
    /\ disk' = disk
    /\ IF prompt.mode = "save"
       THEN E'.statusmsg = Msg("Save aborted", 0, <<>>)
       ELSE Viewport(E') = SavedViewport(prompt)

\* editorPrompt has returned b to its caller: editorSave makes it the
\* filename, editorFind frees it.
ReturnsValue(b) ==
    pc' # "aborted" =>
        /\ prompt'.mode = "none"
        /\ prompt.mode = "save" => E'.filename = b

\* C26 as stated: the prompt returns a value only on Enter with a non-empty
\* buffer, and what it returns is the buffer, which every printable byte
\* typed extends by that byte, every BACKSPACE, CTRL-H and DEL_KEY shortens
\* by its last byte (an empty buffer stays empty) and no other key changes;
\* Enter on an empty buffer keeps the prompt open and ESC returns no value.
C26_PromptResult ==
    [][\A c \in PromptInputs :
          PromptKey(c) =>
              IF c \in {BACKSPACE, CTRL_H, DEL_KEY}
              THEN PromptOpenWith(IF prompt.buf = <<>> THEN <<>>
                                  ELSE SubSeq(prompt.buf, 1, Len(prompt.buf) - 1))
              ELSE IF c = ESC THEN ReturnsNoValue
              ELSE IF c = CR
                   THEN IF prompt.buf = <<>> THEN PromptOpenWith(<<>>)
                        ELSE ReturnsValue(prompt.buf)
              ELSE IF Printable(c) THEN PromptOpenWith(Append(prompt.buf, c))
              ELSE PromptOpenWith(prompt.buf)]_vars

\* The prompt buffer once the key c is applied to it.
BufferAfter(buf, c) ==
    IF c \in {BACKSPACE, CTRL_H, DEL_KEY}
    THEN (IF buf = <<>> THEN <<>> ELSE SubSeq(buf, 1, Len(buf) - 1))
    ELSE IF Printable(c) THEN Append(buf, c)
    ELSE buf

\* C27: every key read in the search prompt - a key that edits the query,
\* one that does not, Enter on an empty buffer, the committing Enter and the
\* cancelling ESC - leaves the editor and the search state as exactly one
\* call of editorFindCallback with the buffer after that key and the key
\* leaves them (after the ESC the saved viewport is put back on top).
C27_CallbackPerKey ==
    [][\A c \in FindPromptKeys :
          (PromptKey(c) /\ prompt.mode = "find") =>
              LET leaves == c = ESC \/ (c = CR /\ prompt.buf # <<>>)
                  r == editorFindCallback(IF leaves THEN editorSetStatusMessage(E, NoMsg) ELSE E,
                                          find, BufferAfter(prompt.buf, c), c)
              IN /\ find' = r.find
                 /\ E' = IF c = ESC THEN FindCancelled(r.E, prompt) ELSE r.E
                 /\ leaves <=> prompt'.mode = "none"]_vars

\* The callback has run on the query "fo" left by a BACKSPACE: the search
\* started over and painted the first hit.
C27_Witness ==
    /\ prompt.mode = "find"
    /\ pc = "refresh"
    /\ prompt.buf = <<102, 111>>
    /\ find.last_match = 0
    /\ find.saved_hl # NoHl
    /\ E.cy = 0 /\ E.rowoff = numrows(E)
    /\ numrows(E) = 3

-----------------------------------------------------------------------------
(* The editing primitives *)

\* Bounds of the editing specification
EditRows == 3
EditLen == 2
EditDirty == 2

\* Two lines, the second one empty or not.
EditFiles == {NoFile, <<97, LF, 98, LF>>, <<97, LF, LF>>}

\* A letter, the control bytes CTRL-A and '\n', a byte above 127 as either
\* char, and the keys that split, join and move.
TypedKeys == {49, 1, LF} \cup PlainChar(200)
           \cup {CR, BACKSPACE, CTRL_H, ARROW_LEFT, ARROW_UP, ARROW_DOWN}

InitEdit == InitWith(EditFiles)

\* The editor started on a file or on none, then edited.
NextEdit ==
    \/ EnableRawMode
    \/ \E r \in WinRows, c \in WinCols : InitEditor(r, c)
    \/ \E n \in ArgNames : OpenFile(n)
    \/ NoFileArg /\ disk = NoFile
    \/ RefreshScreen
    \/ \E c \in TypedKeys : ProcessKeypress(c) /\ Bounded(EditRows, EditLen, EditDirty, 0)'

SpecEdit == InitEdit /\ [][NextEdit]_vars

\* seq without its element at the 0-based position at.
Without(seq, at) == [k \in 1..(Len(seq) - 1) |-> IF k <= at THEN seq[k] ELSE seq[k + 1]]

\* C28: del_char at (0, 0) or on the virtual line (cy == numrows) changes
\* neither rows, cursor nor dirty; with cx > 0 it removes the byte at cx - 1
\* of row cy and decrements cx; with cx == 0 and cy > 0 it replaces rows
\* cy - 1 and cy by their concatenation, so that numrows drops by one, and
\* puts the cursor at (old size of row cy - 1, cy - 1); every other row keeps
\* its chars and its place.
C28_DelChar ==
    AwaitingKey =>
        \A key \in {BACKSPACE, CTRL_H} :
            /\ Survivors(Dispatch(E, key)) # {}
            /\ \A x \in Survivors(Dispatch(E, key)) :
                LET R == RowChars(E)
                    cx == E.cx
                    cy == E.cy
                IN IF cy = numrows(E) \/ (cx = 0 /\ cy = 0)
                   THEN x.row = E.row /\ x.cx = cx /\ x.cy = cy /\ x.dirty = E.dirty
                   ELSE IF cx > 0
                   THEN /\ RowChars(x) = [R EXCEPT ![cy + 1] = Without(@, cx - 1)]
                        /\ x.cx = cx - 1
                        /\ x.cy = cy
                   ELSE /\ numrows(x) = numrows(E) - 1
                        /\ RowChars(x) = [k \in 1..(Len(R) - 1) |->
                                             IF k < cy THEN R[k]
                                             ELSE IF k = cy THEN R[cy] \o R[cy + 1]
                                             ELSE R[k + 1]]
                        /\ x.cx = Len(R[cy])
                        /\ x.cy = cy - 1

\* The two lines of the file joined by a BACKSPACE at the start of the
\* second: the cursor stands where the first line ended.
C28_Witness ==
    /\ pc = "refresh"
    /\ RowChars(E) = <<(<<97, 98>>)>>
    /\ E.dirty = 2
    /\ E.cx = 1
    /\ E.cy = 0

\* The chars of the rows one after the other.
RECURSIVE Concatenation(_)
Concatenation(rows) ==
    IF rows = <<>> THEN <<>> ELSE Head(rows) \o Concatenation(Tail(rows))

\* C29: insert_newline at (cx, cy) adds exactly one row and keeps the
\* concatenation of the rows' chars; row cy becomes the old row's bytes
\* before cx and row cy + 1 the bytes from cx on (with cx == 0 that is an
\* empty row inserted at cy, on the virtual line an empty row appended); the
\* rows above and below keep their chars and their order, and the cursor
\* goes to (0, cy + 1).
C29_InsertNewline ==
    AwaitingKey =>
        /\ Survivors(Dispatch(E, CR)) # {}
        /\ \A x \in Survivors(Dispatch(E, CR)) :
            LET R == RowChars(E)
                cx == E.cx
                cy == E.cy
            IN /\ numrows(x) = numrows(E) + 1
               /\ Concatenation(RowChars(x)) = Concatenation(R)
               /\ RowChars(x) =
                      IF cy = numrows(E) THEN Append(R, <<>>)
                      ELSE [k \in 1..(Len(R) + 1) |->
                               IF k <= cy THEN R[k]
                               ELSE IF k = cy + 1 THEN SubSeq(R[cy + 1], 1, cx)
                               ELSE IF k = cy + 2 THEN SubSeq(R[cy + 1], cx + 1, Len(R[cy + 1]))
                               ELSE R[k - 1]]
               /\ cx = 0 => RowChars(x)[cy + 1] = <<>>
               /\ x.cx = 0
               /\ x.cy = cy + 1

\* The first line of the file, a CTRL-A typed in front of it, split after
\* that byte.
C29_Witness ==
    /\ pc = "refresh"
    /\ RowChars(E) = <<(<<1>>), (<<97>>), (<<98>>)>>
    /\ E.dirty = 2
    /\ E.cx = 0
    /\ E.cy = 1

\* Key codes that reach the default case of editorProcessKeypress: control
\* bytes (NUL, CTRL-A, TAB, '\n', 31), printable bytes, and bytes above 127
\* as a signed and as an unsigned char.
UnboundKeys == {0, 1, TAB, LF, 31, SPACE, 49, 126, 128, 200, 255, -128, -56, -1}

\* The byte a key code is stored as in a row.
StoredByte(c) == IF c < 0 THEN c + 256 ELSE c

\* C30: insert_char(c) makes row cy the old bytes before cx, the byte c and
\* the old bytes from cx on, increases cx by one and leaves cy and every
\* other row alone; numrows grows by one exactly when the cursor was on the
\* virtual line past the last row, where an empty row is appended first.
\* Every key byte outside the dispatch table, control bytes included, is
\* inserted this way.
C30_InsertChar ==
    AwaitingKey =>
        \A c \in UnboundKeys :
            /\ Survivors(Dispatch(E, c)) # {}
            /\ \A x \in Survivors(Dispatch(E, c)) :
                LET R == IF E.cy = numrows(E) THEN Append(RowChars(E), <<>>) ELSE RowChars(E)
                    cx == E.cx
                    cy == E.cy
                    old == R[cy + 1]
                IN /\ RowChars(x) = [R EXCEPT ![cy + 1] =
                                        SubSeq(old, 1, cx) \o <<StoredByte(c)>>
                                            \o SubSeq(old, cx + 1, Len(old))]
                   /\ x.cx = cx + 1
                   /\ x.cy = cy
                   /\ numrows(x) = numrows(E) + (IF cy = numrows(E) THEN 1 ELSE 0)

\* CTRL-A typed into the empty buffer: a row was appended and holds the
\* control byte.
C30_Witness ==
    /\ pc = "refresh"
    /\ E.filename = NoName
    /\ RowChars(E) = <<(<<1>>)>>
    /\ E.dirty = 2
    /\ E.cx = 1
    /\ E.cy = 0

-----------------------------------------------------------------------------
(* Cursor movement *)

\* The size of row i (0-based) of e, the virtual line past the last row
\* having size 0.
SizeOfRow(e, i) == IF i < numrows(e) THEN Len(e.row[i + 1].chars) ELSE 0

\* Where an arrow key takes the cursor of e.
ArrowTarget(e, key) ==
    LET cx == e.cx
        cy == e.cy
    IN IF key = ARROW_LEFT
       THEN (IF cx > 0 THEN <<cx - 1, cy>>
             ELSE IF cy > 0 THEN <<SizeOfRow(e, cy - 1), cy - 1>>
             ELSE <<cx, cy>>)
       ELSE IF key = ARROW_RIGHT
       THEN (IF cy < numrows(e) /\ cx < SizeOfRow(e, cy) THEN <<cx + 1, cy>>
             ELSE IF cy < numrows(e) THEN <<0, cy + 1>>
             ELSE <<cx, cy>>)
       ELSE IF key = ARROW_UP
       THEN (IF cy > 0 THEN <<Min(cx, SizeOfRow(e, cy - 1)), cy - 1>> ELSE <<cx, cy>>)
       ELSE (IF cy < numrows(e) THEN <<Min(cx, SizeOfRow(e, cy + 1)), cy + 1>>
             ELSE <<cx, cy>>)

\* C31: an arrow key changes nothing but the cursor - rows and dirty stay -
\* and wraps at line boundaries: LEFT at cx == 0 goes to the end of the row
\* above and does nothing at (0, 0); RIGHT at the end of a row goes to the
\* start of the next line and does nothing on the virtual line; UP and DOWN
\* change cy by one inside [0, numrows] and clamp cx to the size of the row
\* they land on.
C31_ArrowMoves ==
    AwaitingKey =>
        \A key \in {ARROW_LEFT, ARROW_RIGHT, ARROW_UP, ARROW_DOWN} :
            Dispatch(E, key) = {[E EXCEPT !.cx = ArrowTarget(E, key)[1],
                                          !.cy = ArrowTarget(E, key)[2]]}

\* The cursor has been moved onto the virtual line under the two rows of the
\* unmodified file.
C31_Witness ==
    /\ pc = "refresh"
    /\ prompt.mode = "none"
    /\ E.dirty = 0
    /\ numrows(E) = 2
    /\ E.cy = 2
    /\ E.cx = 0

-----------------------------------------------------------------------------
(* Loading a file *)

\* The lines of F, cut after each '\n', without the '\n' and the '\r' bytes
\* they end with.
RECURSIVE StrippedLines(_)
StrippedLines(F) ==
    IF F = <<>> THEN <<>>
    ELSE LET i == FirstLF(F)
         IN <<DropCRs(SubSeq(F, 1, i - 1))>> \o StrippedLines(SubSeq(F, i + 1, Len(F)))

\* F with every "\r\n" replaced by "\n".
RECURSIVE LFCounterpart(_)
LFCounterpart(F) ==
    IF F = <<>> THEN <<>>
    ELSE IF Len(F) >= 2 /\ F[1] = CR /\ F[2] = LF
         THEN <<LF>> \o LFCounterpart(SubSeq(F, 3, Len(F)))
         ELSE <<Head(F)>> \o LFCounterpart(Tail(F))

\* C32: when open(path) completes, the rows are the lines of the file in
\* order, each without its trailing '\n' and '\r' bytes, so that no row ends
\* in '\r' or '\n' and the file with "\n" for every "\r\n" loads to the same
\* rows; dirty is 0 and filename is path.
C32_OpenLoadsLines ==
    [][\A n \in SessNames :
          (OpenFile(n) /\ pc' = "refresh") =>
              /\ RowChars(E') = StrippedLines(disk)
              /\ \A i \in 1..numrows(E') :
                    LET chars == E'.row[i].chars
                    IN chars = <<>> \/ chars[Len(chars)] \notin {CR, LF}
              /\ \A x \in Survivors(editorOpen(E, n, LFCounterpart(disk))) :
                    RowChars(x) = RowChars(E')
              /\ E'.dirty = 0
              /\ E'.filename = n]_vars

\* A file of an empty "\r\n" line and an unterminated line ending in '\r'
\* has been loaded as the rows "" and "a".
C32_Witness ==
    /\ pc = "refresh"
    /\ E.statusmsg = HelpMsg
    /\ disk = <<CR, LF, 97, CR>>
    /\ RowChars(E) = <<(<<>>), (<<97>>)>>
    /\ E.dirty = 0
    /\ E.filename # NoName

-----------------------------------------------------------------------------
(* Deleting forward *)

\* The rows of e after a forward delete at its cursor: the byte at cx gone,
\* or the next row joined onto row cy.
ForwardDeleted(e) ==
    LET R == RowChars(e)
        cx == e.cx
        cy == e.cy
    IN IF cx < SizeOfRow(e, cy)
       THEN [R EXCEPT ![cy + 1] = Without(@, cx)]
       ELSE [k \in 1..(Len(R) - 1) |->
                IF k <= cy THEN R[k]
                ELSE IF k = cy + 1 THEN R[cy + 1] \o R[cy + 2]
                ELSE R[k + 1]]

\* C33 as stated: in every state a DEL_KEY keypress leaves (cx, cy) as it
\* was; it removes the byte at cx when cx < row.size, joins the next row
\* onto the current one when cx == row.size and a next row exists, and
\* changes nothing otherwise.
C33_DelKeyKeepsCursor ==
    AwaitingKey =>
        /\ Survivors(Dispatch(E, DEL_KEY)) # {}
        /\ \A x \in Survivors(Dispatch(E, DEL_KEY)) :
            /\ x.cx = E.cx
            /\ x.cy = E.cy
            /\ IF E.cy < numrows(E) /\ (E.cx < SizeOfRow(E, E.cy) \/ E.cy + 1 < numrows(E))
               THEN RowChars(x) = ForwardDeleted(E)
               ELSE x = E

\* C33, amended: a DEL_KEY keypress removes the byte at cx when
\* cx < row.size and joins the next row onto the current one when
\* cx == row.size and a next row exists, the cursor staying at (cx, cy) in
\* both cases; on the virtual line it changes nothing; at the end of the
\* last row it changes neither rows nor dirty but moves the cursor to
\* (0, numrows), the virtual line.
C33_DelKey ==
    AwaitingKey =>
        /\ Survivors(Dispatch(E, DEL_KEY)) # {}
        /\ \A x \in Survivors(Dispatch(E, DEL_KEY)) :
            IF E.cy < numrows(E) /\ (E.cx < SizeOfRow(E, E.cy) \/ E.cy + 1 < numrows(E))
            THEN /\ RowChars(x) = ForwardDeleted(E)
                 /\ x.cx = E.cx
                 /\ x.cy = E.cy
            ELSE IF E.cy < numrows(E)
            THEN x = [E EXCEPT !.cx = 0, !.cy = numrows(E)]
            ELSE x = E

\* The first byte of the file's first line has been deleted with the cursor
\* in front of it.
C33_Witness ==
    /\ pc = "refresh"
    /\ prompt.mode = "none"
    /\ RowChars(E) = <<(<<>>), (<<TAB>>)>>
    /\ E.dirty = 1
    /\ E.cx = 0
    /\ E.cy = 0

-----------------------------------------------------------------------------
(* The text during a search *)

\* What a search must leave alone: the rows' chars and render (and with
\* them numrows), dirty and the file name.
TextOf(e) ==
    [rows |-> [i \in 1..numrows(e) |-> <<e.row[i].chars, e.row[i].render>>],
     dirty |-> e.dirty,
     filename |-> e.filename]

-----------------------------------------------------------------------------
(* Highlighting outside a search *)

\* C35: whenever no find session is in progress, every row's hl is the
\* highlight derivation of the row's current render under the selected
\* syntax rule - all HL_NORMAL when none is selected - whatever edits
\* followed the start of the editor or the load of the file.
C35_HlDerived ==
    (BetweenKeys /\ prompt.mode # "find") =>
        \A i \in 1..numrows(E) :
            E.row[i].hl = editorUpdateSyntax(E.row[i].render, E.syntax)

-----------------------------------------------------------------------------
(* Enter followed by BACKSPACE *)

\* Bounds of the specification of splits and joins
SplitRows == 3
SplitLen == 3
SplitDirty == 3

SplitFiles == {<<97, 98, LF, 99, LF>>, <<TAB, 97, LF>>}
SplitKeys == {CR, BACKSPACE, ARROW_RIGHT, ARROW_DOWN, ARROW_UP}

InitSplit == InitWith(SplitFiles)

\* The editor started on a file whose lines are split and joined.
NextSplit ==
    \/ EnableRawMode
    \/ \E r \in WinRows, c \in WinCols : InitEditor(r, c)
    \/ \E n \in ArgNames : OpenFile(n)
    \/ RefreshScreen
    \/ \E c \in SplitKeys : ProcessKeypress(c) /\ Bounded(SplitRows, SplitLen, SplitDirty, 0)'

SpecSplit == InitSplit /\ [][NextSplit]_vars

\* The states after Enter and then BACKSPACE, each followed by its render,
\* from the state e.
EnterThenBackspace(e) ==
    LET Split == {editorScroll(x) : x \in Survivors(Dispatch(e, CR))}
    IN UNION {{editorScroll(y) : y \in Survivors(Dispatch(x, BACKSPACE))} : x \in Split}

\* C36: with the cursor on a row of the buffer (cy < numrows), Enter
\* immediately followed by BACKSPACE leaves the sequence of rows, every
\* row's chars and the cursor (cx, cy) as they were before the Enter.
C36_EnterBackspace ==
    (AwaitingKey /\ E.cy < numrows(E)) =>
        /\ EnterThenBackspace(E) # {}
        /\ \A x \in EnterThenBackspace(E) :
            /\ RowChars(x) = RowChars(E)
            /\ x.cx = E.cx
            /\ x.cy = E.cy

\* The first line of the file was split after its first byte and joined
\* again: three changes were counted and the rows are those of the file.
C36_Witness ==
    /\ pc = "refresh"
    /\ RowChars(E) = <<(<<97, 98>>), (<<99>>)>>
    /\ E.dirty = 3
    /\ E.cx = 1
    /\ E.cy = 0

-----------------------------------------------------------------------------
(* Save followed by open *)

\* Bounds of the specification of saved buffers
ReopenRows == 3
ReopenLen == 3
ReopenDirty == 2

\* A line with a '\r' inside it.
ReopenFiles == {<<97, LF>>, <<97, CR, 98, LF>>}

\* A letter, CTRL-J (the byte '\n'), Enter, a move and the save.
ReopenKeys == {97, LF, CR, ARROW_RIGHT, CTRL_S}

InitReopen == InitWith(ReopenFiles)

\* The editor started on a file, the buffer edited and saved.
NextReopen ==
    \/ EnableRawMode
    \/ \E r \in WinRows, c \in WinCols : InitEditor(r, c)
    \/ \E n \in SessNames : OpenFile(n)
    \/ RefreshScreen
    \/ \E c \in ReopenKeys :
          /\ ProcessKeypress(c)
          /\ Bounded(ReopenRows, ReopenLen, ReopenDirty, 0)'
          /\ E'.row # E.row => disk \in ReopenFiles

SpecReopen == InitReopen /\ [][NextReopen]_vars

\* The rows a freshly started editor holds after opening the file F.
Reopened(name, F) == {RowChars(x) : x \in Survivors(editorOpen(E0, name, F))}

\* C37: whatever keys led to the buffer, right after a successful save the
\* saved file, opened in a freshly started editor, gives the same rows: the
\* same numrows and the same chars in every row.
C37_SaveThenOpen ==
    (pc = "refresh" /\ E.statusmsg.kind = "bytes written to disk") =>
        Reopened(E.filename, disk) = {RowChars(E)}

-----------------------------------------------------------------------------
(* The two tab expansions *)

\* The number of tabs in chars, as editorUpdateRow counts them.
TabsIn(chars) == Cardinality({i \in 1..Len(chars) : chars[i] = TAB})

\* C38: the column computation and the render agree: for every row and
\* every cx in [0, size], editorRowCxToRx(row, cx) <= rsize, with equality
\* at cx == size; editorRowCxToRx is strictly increasing in cx; and the
\* bytes editorUpdateRow writes into render (rsize of them, the terminator
\* aside) never exceed size + tabs * (ZEN_TAB_STOP - 1), the capacity it
\* allocated.
C38_TabExpansionsAgree ==
    \A r \in 1..numrows(E) :
        LET row == E.row[r]
            size == Len(row.chars)
            rsize == Len(row.render)
        IN /\ \A cx \in 0..size : editorRowCxToRx(row, cx) <= rsize
           /\ editorRowCxToRx(row, size) = rsize
           /\ \A cx \in 0..(size - 1) :
                 editorRowCxToRx(row, cx) < editorRowCxToRx(row, cx + 1)
           /\ rsize <= size + TabsIn(row.chars) * (ZEN_TAB_STOP - 1)

\* The cursor at the end of the row "\ta\t": the render column is 8, the
\* size of the render.
C38_Witness ==
    /\ pc = "readkey"
    /\ prompt.mode = "none"
    /\ numrows(E) = 1
    /\ E.row[1].chars = <<TAB, 97, TAB>>
    /\ Len(E.row[1].render) = 8
    /\ E.cx = 3
    /\ E.rx = 8

====
